---- MODULE Spec2Model ----
(***************************************************************************)
(* Model of the inbound event pipeline of the SES email service: the send  *)
(* path that creates Message rows, the SNS/SES webhook route with its five *)
(* event handlers (the delivery state machine), and the suppression        *)
(* escalation the handlers trigger.                                        *)
(*                                                                         *)
(* The store is three tables: messages (a sequence, the index is the       *)
(* primary key), events and suppressions (sequences of rows in insertion   *)
(* order).  Spec runs every request to completion before the next one      *)
(* (one request handler at a time); SpecConc runs webhook requests as      *)
(* two overlapping request handlers, each with its own session.            *)
(*                                                                         *)
(* SpecSupp adds the other writers of the suppression list (manual add,    *)
(* removal, unsubscribe); SpecTrack is the open and click tracking, and    *)
(* SpecTrackConc two overlapping open requests; SpecRoute is the webhook   *)
(* route from the raw request body on.                                     *)
(***************************************************************************)
EXTENDS Integers, Sequences, FiniteSets, TLC

\* ------------------------------------------------------------------ bounds
MaxRequests == 4      \* requests (sends and webhook notifications) per run
MaxMessages == 2      \* Message rows the send path may create
MaxConcRequests == 3  \* requests per run of the overlapping handlers (SpecConc)
MaxRouteRequests == 3 \* requests per run of the webhook route (SpecRoute)
MaxCertRequests == 3  \* calls per run of the signature verifier (SpecCert)
MaxSendRequests == 3  \* requests per run of the send path (SpecSend)
MaxFrameRequests == 4 \* requests per run of events next to tracking (SpecFrame)

\* --------------------------------------------------------------- constants
None == 0             \* a NULL column / Python None; clock values are >= 1

VARIABLES
    messages,         \* table messages: Seq of Message rows, index = id
    events,           \* table events: Seq of Event rows (append-only)
    suppressions,     \* table suppressions: Seq of Suppression rows
    now,              \* the clock read by datetime.utcnow()
    handled,          \* log of webhook events handled, with the handler's outcome
    sessions,         \* SpecConc: per request handler, its session state
    base,             \* SpecConc: committed store when the running batch began
    batch,            \* SpecConc: events received since the store was quiescent
    click_events,     \* table click_events: Seq of ClickEvent rows (append-only)
    reply,            \* the last completed request and what it answered
    tracked,          \* log of record_open / record_click calls and results
    cert_cache        \* sns_validator._cert_cache: certificate by certificate URL

vars == <<messages, events, suppressions, now, handled, sessions, base, batch,
          click_events, reply, tracked, cert_cache>>

\* ------------------------------------------------------------------ inputs
\* Recipient addresses of send requests: all well-formed and of an allowed
\* domain, two of them equal up to case.
Recipients == {"a@x.io", "A@x.io", "b@x.io"}

\* str.lower() on the addresses of the model
Lower(s) == IF s = "A@x.io" THEN "a@x.io" ELSE s

\* The provider's correlation id of the k-th accepted send, as a string of
\* tokens; the provider may wrap it in angle brackets.
ProviderId(k) == <<ToString(k)>>
Wrap(id) == <<"<">> \o id \o <<">">>

EventTypes == {"Delivery", "Bounce", "Complaint", "DeliveryDelay", "Reject"}
BounceTypes == {"Permanent", "Transient"}

\* Provider timestamps as token strings: an ISO instant with the "Z" suffix
\* SES sends, and a value datetime.fromisoformat cannot parse (for every
\* handler but handle_delivery this also stands for a missing field: both
\* raise at the same place, the construction of the Event).
ProviderTimestamps == {<<"2024-01-15T10:30:01.000", "Z">>, <<"garbage">>}

\* Correlation ids carried by events: the first send's id wrapped in angle
\* brackets, the later sends' ids plain, and an id no Message has.
EventMessageIds ==
    {Wrap(ProviderId(1))}
        \cup {ProviderId(k) : k \in 2..MaxMessages} \cup {<<"unknown">>}

\* str(message.id) of the k-th Message row, as a string of tokens, and the
\* tracking ids requests carry: the ids of the rows, a well-formed id no row
\* has, and a string that is no UUID.
UuidStr(k) == <<"uuid", ToString(k)>>
TrackingIds ==
    {UuidStr(k) : k \in 1..(MaxMessages + 1)} \cup {<<"not-a-uuid">>}

\* Destination URLs of tracked links
Urls == {"https://x.io/a", "https://x.io/b"}

\* SigningCertURL values, as scheme and the host split at the dots: the SNS
\* endpoint of a region over https, the China partition, the same host over
\* http, a foreign host, and a host that only starts like an SNS endpoint.
CertUrls ==
    {[scheme |-> "https", netloc |-> <<"sns", "us-east-1", "amazonaws", "com">>],
     [scheme |-> "https", netloc |-> <<"sns", "cn-north-1", "amazonaws", "com", "cn">>],
     [scheme |-> "http",  netloc |-> <<"sns", "us-east-1", "amazonaws", "com">>],
     [scheme |-> "https", netloc |-> <<"evil", "example", "com">>],
     [scheme |-> "https", netloc |-> <<"sns", "us-east-1", "amazonaws", "com", "evil", "io">>]}

\* The lower-case letters, digits and hyphens the region label is made of
RegionLabels == {"us-east-1", "cn-north-1"}

SesEvents ==
    {[eventType |-> t, messageId |-> i, bounceType |-> "-", timestamp |-> ts] :
        t \in EventTypes \ {"Bounce"}, i \in EventMessageIds, ts \in ProviderTimestamps}
    \cup
    {[eventType |-> "Bounce", messageId |-> i, bounceType |-> b, timestamp |-> ts] :
        i \in EventMessageIds, b \in BounceTypes, ts \in ProviderTimestamps}

\* ------------------------------------------------------------ pure helpers
\* s.startswith("<") and s.endswith(">")  ->  s[1:-1]
StripAngleBrackets(s) ==
    IF Len(s) > 0 /\ s[1] = "<" /\ s[Len(s)] = ">"
    THEN SubSeq(s, 2, Len(s) - 1)
    ELSE s

\* ts.replace("Z", "+00:00")
ReplaceZ(ts) == [i \in DOMAIN ts |-> IF ts[i] = "Z" THEN "+00:00" ELSE ts[i]]

\* datetime.fromisoformat: ok with the parsed aware datetime, or raises
fromisoformat(s) ==
    IF Len(s) = 2 /\ s[2] = "+00:00"
    THEN [ok |-> TRUE, value |-> [instant |-> s[1], utcoffset |-> 0]]
    ELSE [ok |-> FALSE, value |-> None]

\* get_message_by_ses_id comparing the correlation id as the event carries it
get_message_by_ses_id_exact(msgs, ses_message_id) ==
    LET found == {i \in DOMAIN msgs : msgs[i].ses_message_id = ses_message_id}
    IN  IF found = {} THEN None ELSE CHOOSE i \in found : TRUE

\* select(Message).where(Message.ses_message_id == id).scalar_one_or_none()
get_message_by_ses_id(msgs, ses_message_id) ==
    LET sid == StripAngleBrackets(ses_message_id)
        found == {i \in DOMAIN msgs : msgs[i].ses_message_id = sid}
    IN  IF found = {} THEN None ELSE CHOOSE i \in found : TRUE

\* check_suppression comparing the address as given
check_suppression_case_sensitive(sups, email) ==
    \E i \in DOMAIN sups : sups[i].email = email

\* check_suppression: is there a row for the lower-cased address
check_suppression(sups, email) ==
    \E i \in DOMAIN sups : sups[i].email = Lower(email)

\* add_to_suppression_list rewriting the reason of an existing row
add_to_suppression_list_last_writer_wins(sups, email, reason) ==
    IF \E i \in DOMAIN sups : sups[i].email = Lower(email)
    THEN [i \in DOMAIN sups |->
             IF sups[i].email = Lower(email)
             THEN [sups[i] EXCEPT !.reason = reason] ELSE sups[i]]
    ELSE Append(sups, [email |-> Lower(email), reason |-> reason])

\* add_to_suppression_list inserting a row without looking for an existing one
add_to_suppression_list_appending(sups, email, reason) ==
    Append(sups, [email |-> Lower(email), reason |-> reason])

\* add_to_suppression_list: idempotent insert, first writer wins
add_to_suppression_list(sups, email, reason) ==
    IF \E i \in DOMAIN sups : sups[i].email = Lower(email)
    THEN sups
    ELSE Append(sups, [email |-> Lower(email), reason |-> reason])

\* suppression_service.add_suppression without the lookup of an existing row
add_suppression_no_lookup(sups, email, reason) ==
    [suppressions |-> Append(sups, [email |-> Lower(email), reason |-> reason]),
     code |-> "created"]

\* suppression_service.add_suppression: 409 when the address is listed,
\* else one new row
add_suppression(sups, email, reason) ==
    IF \E i \in DOMAIN sups : sups[i].email = Lower(email)
    THEN [suppressions |-> sups, code |-> "ALREADY_SUPPRESSED"]
    ELSE [suppressions |-> Append(sups, [email |-> Lower(email), reason |-> reason]),
          code |-> "created"]

\* suppression_service.remove_suppression: delete the row found for the
\* lower-cased address; false when there is none
remove_suppression(sups, email) ==
    LET found == {i \in DOMAIN sups : sups[i].email = Lower(email)} IN
    IF found = {}
    THEN [suppressions |-> sups, removed |-> FALSE]
    ELSE LET k == CHOOSE i \in found : TRUE
         IN  [suppressions |-> SubSeq(sups, 1, k - 1) \o SubSeq(sups, k + 1, Len(sups)),
              removed |-> TRUE]

\* unsubscribe_service.process_unsubscribe: idempotent insert with reason
\* unsubscribe
process_unsubscribe(sups, email) ==
    IF \E i \in DOMAIN sups : sups[i].email = Lower(email)
    THEN sups
    ELSE Append(sups, [email |-> Lower(email), reason |-> "unsubscribe"])

\* A JSON null, and the value dict.get gives for a missing key
JsonNull == "null"
NL == "\n"

\* The envelope Types build_signature_string has a field list for, and the
\* fields verify_sns_signature requires
SignedTypes ==
    {"Notification", "SubscriptionConfirmation", "UnsubscribeConfirmation"}
RequiredFields == {"Signature", "SigningCertURL", "Type", "MessageId"}

\* The key of the SNS signing certificate and a key of somebody else
SnsKey == "sns-key"
OtherKey == "other-key"

\* _cert_cache = {} and the absence of a certificate
EmptyCache == [u \in {} |-> None]
NoCertificate == [public_key |-> "-"]

\* sns_validator.is_valid_sns_url: https and a host matching
\* ^sns\.[a-z0-9-]+\.amazonaws\.com(\.cn)?$
is_valid_sns_url(url) ==
    /\ url.scheme = "https"
    /\ Len(url.netloc) \in {4, 5}
    /\ url.netloc[1] = "sns"
    /\ url.netloc[2] \in RegionLabels
    /\ url.netloc[3] = "amazonaws"
    /\ url.netloc[4] = "com"
    /\ Len(url.netloc) = 5 => url.netloc[5] = "cn"

\* An RSA signature as what verification can tell of it: the key that made
\* it and the bytes it was made over.  NotBase64 is a Signature string
\* base64.b64decode rejects.
Sign(key, data) == [b64 |-> TRUE, key |-> key, over |-> data]
NotBase64 == [b64 |-> FALSE, key |-> "-", over |-> <<>>]

\* public_key.verify(signature, data, PKCS1v15, SHA1): TRUE when it returns,
\* FALSE when it raises InvalidSignature
rsa_verify(public_key, signature, data) ==
    signature.key = public_key /\ signature.over = data

\* dict.get on an envelope or an event: the value, or None for a key the
\* document lacks; a JSON null is None as well
Get(d, k) == IF k \in DOMAIN d THEN d[k] ELSE JsonNull

\* build_signature_string rendering an absent field with an empty value
build_signature_string_rendering_absent(message) ==
    LET msg_type == Get(message, "Type")
        fields ==
            IF msg_type = "Notification"
            THEN <<"Message", "MessageId", "Subject", "Timestamp", "TopicArn",
                   "Type">>
            ELSE <<"Message", "MessageId", "SubscribeURL", "Timestamp",
                   "Token", "TopicArn", "Type">>
        part(f) == IF Get(message, f) # JsonNull
                   THEN <<f, NL, message[f], NL>>
                   ELSE <<f, NL, NL>>
        parts[i \in 0..Len(fields)] ==
            IF i = 0 THEN <<>> ELSE parts[i - 1] \o part(fields[i])
    IN  IF msg_type \in SignedTypes
        THEN [ok |-> TRUE, value |-> parts[Len(fields)]]
        ELSE [ok |-> FALSE, value |-> <<>>]

\* sns_validator.build_signature_string: the bytes as a sequence of tokens,
\* "{field}\n{value}\n" for every listed field whose value is not None, in
\* the order of the list for the Type; ValueError for any other Type
build_signature_string(message) ==
    LET msg_type == Get(message, "Type")
        fields ==
            IF msg_type = "Notification"
            THEN <<"Message", "MessageId", "Subject", "Timestamp", "TopicArn",
                   "Type">>
            ELSE <<"Message", "MessageId", "SubscribeURL", "Timestamp",
                   "Token", "TopicArn", "Type">>
        part(f) == IF Get(message, f) # JsonNull
                   THEN <<f, NL, message[f], NL>>
                   ELSE <<>>
        parts[i \in 0..Len(fields)] ==
            IF i = 0 THEN <<>> ELSE parts[i - 1] \o part(fields[i])
    IN  IF msg_type \in SignedTypes
        THEN [ok |-> TRUE, value |-> parts[Len(fields)]]
        ELSE [ok |-> FALSE, value |-> <<>>]

\* The certificate an SNS endpoint serves, as the key it certifies
Certificate(cert_url) == [public_key |-> SnsKey]

\* fetch_signing_certificate looking at the cache only after the fetch
fetch_signing_certificate_refetching(cert_url, cache, net) ==
    IF ~is_valid_sns_url(cert_url)
    THEN [ok |-> FALSE, certificate |-> NoCertificate, cache |-> cache,
          fetches |-> 0]
    ELSE IF net # "pem"
    THEN [ok |-> FALSE, certificate |-> NoCertificate, cache |-> cache,
          fetches |-> 1]
    ELSE [ok |-> TRUE, certificate |-> Certificate(cert_url),
          cache |-> [u \in DOMAIN cache \cup {cert_url} |->
                        IF u = cert_url THEN Certificate(cert_url)
                        ELSE cache[u]],
          fetches |-> 1]

\* fetch_signing_certificate validating the URL after the GET
fetch_signing_certificate_fetching_first(cert_url, cache, net) ==
    IF cert_url \in DOMAIN cache
    THEN [ok |-> TRUE, certificate |-> cache[cert_url], cache |-> cache,
          fetches |-> 0]
    ELSE IF net # "pem" \/ ~is_valid_sns_url(cert_url)
    THEN [ok |-> FALSE, certificate |-> NoCertificate, cache |-> cache,
          fetches |-> 1]
    ELSE [ok |-> TRUE, certificate |-> Certificate(cert_url),
          cache |-> [u \in DOMAIN cache \cup {cert_url} |->
                        IF u = cert_url THEN Certificate(cert_url)
                        ELSE cache[u]],
          fetches |-> 1]

\* fetch_signing_certificate remembering a failed fetch in the cache
fetch_signing_certificate_caching_failures(cert_url, cache, net) ==
    IF cert_url \in DOMAIN cache
    THEN [ok |-> TRUE, certificate |-> cache[cert_url], cache |-> cache,
          fetches |-> 0]
    ELSE IF ~is_valid_sns_url(cert_url)
    THEN [ok |-> FALSE, certificate |-> NoCertificate, cache |-> cache,
          fetches |-> 0]
    ELSE IF net # "pem"
    THEN [ok |-> FALSE, certificate |-> NoCertificate,
          cache |-> [u \in DOMAIN cache \cup {cert_url} |->
                        IF u = cert_url THEN NoCertificate ELSE cache[u]],
          fetches |-> 1]
    ELSE [ok |-> TRUE, certificate |-> Certificate(cert_url),
          cache |-> [u \in DOMAIN cache \cup {cert_url} |->
                        IF u = cert_url THEN Certificate(cert_url)
                        ELSE cache[u]],
          fetches |-> 1]

\* sns_validator.fetch_signing_certificate on the cache as it is and the
\* network as it answers (net: "pem" a certificate, "unreachable" no answer
\* or an error status, "not_pem" a body that is no certificate): the cached
\* certificate; else ValueError for a URL that is no SNS endpoint; else one
\* GET, the parsed certificate stored under its URL, or ValueError.
fetch_signing_certificate(cert_url, cache, net) ==
    IF cert_url \in DOMAIN cache
    THEN [ok |-> TRUE, certificate |-> cache[cert_url], cache |-> cache,
          fetches |-> 0]
    ELSE IF ~is_valid_sns_url(cert_url)
    THEN [ok |-> FALSE, certificate |-> NoCertificate, cache |-> cache,
          fetches |-> 0]
    ELSE IF net # "pem"
    THEN [ok |-> FALSE, certificate |-> NoCertificate, cache |-> cache,
          fetches |-> 1]
    ELSE [ok |-> TRUE, certificate |-> Certificate(cert_url),
          cache |-> [u \in DOMAIN cache \cup {cert_url} |->
                        IF u = cert_url THEN Certificate(cert_url)
                        ELSE cache[u]],
          fetches |-> 1]

\* clear_certificate_cache
clear_certificate_cache(cache) == EmptyCache

\* verify_sns_signature accepting every envelope
verify_sns_signature_trusting(message, cache, net) ==
    [result |-> "valid", cache |-> cache, fetches |-> 0]

\* verify_sns_signature raising for a signature that does not verify
verify_sns_signature_raising_on_invalid(message, cache, net) ==
    IF \E f \in RequiredFields : f \notin DOMAIN message
    THEN [result |-> "error", cache |-> cache, fetches |-> 0]
    ELSE
    LET signature_b64 == message["Signature"]
        cert_url == message["SigningCertURL"]
    IN  IF ~signature_b64.b64
        THEN [result |-> "error", cache |-> cache, fetches |-> 0]
        ELSE
        LET c == fetch_signing_certificate(cert_url, cache, net)
            string_to_sign == build_signature_string(message)
        IN  IF ~c.ok \/ ~string_to_sign.ok
            THEN [result |-> "error", cache |-> c.cache, fetches |-> c.fetches]
            ELSE [result |-> IF rsa_verify(c.certificate.public_key,
                                           signature_b64, string_to_sign.value)
                             THEN "valid" ELSE "error",
                  cache |-> c.cache, fetches |-> c.fetches]

\* sns_validator.verify_sns_signature: "valid" for True, "invalid" for
\* False, "error" for ValueError, with the cache it leaves and the number
\* of GETs it made.  ValueError for a missing required field; then, in this
\* order, base64.b64decode, fetch_signing_certificate,
\* build_signature_string, any exception of which becomes ValueError; then
\* public_key.verify.
verify_sns_signature(message, cache, net) ==
    IF \E f \in RequiredFields : f \notin DOMAIN message
    THEN [result |-> "error", cache |-> cache, fetches |-> 0]
    ELSE
    LET signature_b64 == message["Signature"]
        cert_url == message["SigningCertURL"]
    IN  IF ~signature_b64.b64
        THEN [result |-> "error", cache |-> cache, fetches |-> 0]
        ELSE
        LET c == fetch_signing_certificate(cert_url, cache, net)
            string_to_sign == build_signature_string(message)
        IN  IF ~c.ok \/ ~string_to_sign.ok
            THEN [result |-> "error", cache |-> c.cache, fetches |-> c.fetches]
            ELSE [result |-> IF rsa_verify(c.certificate.public_key,
                                           signature_b64, string_to_sign.value)
                             THEN "valid" ELSE "invalid",
                  cache |-> c.cache, fetches |-> c.fetches]

\* UUID(s): ok with the parsed value, or ValueError
UUID(s) ==
    IF Len(s) = 2 /\ s[1] = "uuid"
    THEN [ok |-> TRUE, value |-> s[2]]
    ELSE [ok |-> FALSE, value |-> None]

\* get_message_by_id resolving a string that is no UUID to the first row
get_message_by_id_lenient(msgs, message_id) ==
    LET u == UUID(message_id) IN
    IF ~u.ok
    THEN IF msgs = <<>> THEN None ELSE 1
    ELSE LET found == {i \in DOMAIN msgs : ToString(i) = u.value}
         IN  IF found = {} THEN None ELSE CHOOSE i \in found : TRUE

\* tracking_service.get_message_by_id: None for a string that is no UUID,
\* else select(Message).where(Message.id == id).scalar_one_or_none()
get_message_by_id(msgs, message_id) ==
    LET u == UUID(message_id) IN
    IF ~u.ok
    THEN None
    ELSE LET found == {i \in DOMAIN msgs : ToString(i) = u.value}
         IN  IF found = {} THEN None ELSE CHOOSE i \in found : TRUE

\* record_open without the "already opened" check
record_open_last_wins(msgs, message_id, t) ==
    LET m == get_message_by_id(msgs, message_id) IN
    IF m = None
    THEN [messages |-> msgs, result |-> FALSE]
    ELSE [messages |-> [msgs EXCEPT ![m].opened_at = t, ![m].updated_at = t],
          result |-> TRUE]

\* record_open taking the first open for a proof of delivery
record_open_marking_delivered(msgs, message_id, t) ==
    LET m == get_message_by_id(msgs, message_id) IN
    IF m = None
    THEN [messages |-> msgs, result |-> FALSE]
    ELSE IF msgs[m].opened_at # None
         THEN [messages |-> msgs, result |-> FALSE]
         ELSE [messages |-> [msgs EXCEPT ![m].opened_at = t, ![m].updated_at = t,
                                         ![m].status = "delivered"],
               result |-> TRUE]

\* tracking_service.record_open: set opened_at on the first open only
record_open(msgs, message_id, t) ==
    LET m == get_message_by_id(msgs, message_id) IN
    IF m = None
    THEN [messages |-> msgs, result |-> FALSE]
    ELSE IF msgs[m].opened_at # None
         THEN [messages |-> msgs, result |-> FALSE]
         ELSE [messages |-> [msgs EXCEPT ![m].opened_at = t, ![m].updated_at = t],
               result |-> TRUE]

\* record_click recording a URL once per Message
record_click_once_per_url(msgs, clicks, message_id, url, t) ==
    LET m == get_message_by_id(msgs, message_id) IN
    IF m = None
    THEN [click_events |-> clicks, result |-> FALSE]
    ELSE IF \E i \in DOMAIN clicks : clicks[i].message_id = m /\ clicks[i].url = url
         THEN [click_events |-> clicks, result |-> TRUE]
         ELSE [click_events |->
                   Append(clicks, [message_id |-> m, url |-> url, clicked_at |-> t]),
               result |-> TRUE]

\* tracking_service.record_click: always one new ClickEvent for a found Message
record_click(msgs, clicks, message_id, url, t) ==
    LET m == get_message_by_id(msgs, message_id) IN
    IF m = None
    THEN [click_events |-> clicks, result |-> FALSE]
    ELSE [click_events |->
              Append(clicks, [message_id |-> m, url |-> url, clicked_at |-> t]),
          result |-> TRUE]

\* The Event row a handler builds
EventRow(m, type, btype, e, ts) ==
    [message_id |-> m, event_type |-> type, bounce_type |-> btype,
     raw_payload |-> e, timestamp |-> ts]

\* What a handler leaves in its session: the tables as they are once the
\* session commits, the Message it resolved (None if none), whether it raised.
Outcome(msgs, evs, sups, m, raised) ==
    [messages |-> msgs, events |-> evs, suppressions |-> sups,
     message_id |-> m, raised |-> raised]

\* --------------------------------------------------------------- handlers
\* Each handler maps the store db = [messages, events, suppressions], the
\* event e and the clock t to its Outcome.  A handler that raises after it
\* changed the Message leaves the change in the session: the webhook route
\* swallows the exception and get_session commits what the session holds.

\* handle_delivery without the valid_transitions guard
handle_delivery_unguarded(db, e, t) ==
    LET m == get_message_by_ses_id(db.messages, e.messageId) IN
    IF m = None
    THEN Outcome(db.messages, db.events, db.suppressions, None, FALSE)
    ELSE
      LET msgs == [db.messages EXCEPT ![m].status = "delivered", ![m].updated_at = t]
          ts == fromisoformat(ReplaceZ(e.timestamp))
      IN  IF ~ts.ok
          THEN Outcome(msgs, db.events, db.suppressions, m, TRUE)
          ELSE Outcome(msgs,
                       Append(db.events, EventRow(m, "delivery", "-", e, ts.value)),
                       db.suppressions, m, FALSE)

handle_delivery(db, e, t) ==
    LET m == get_message_by_ses_id(db.messages, e.messageId) IN
    IF m = None
    THEN Outcome(db.messages, db.events, db.suppressions, None, FALSE)
    ELSE
      LET msgs == IF db.messages[m].status \in {"sent", "deferred"}
                  THEN [db.messages EXCEPT ![m].status = "delivered",
                                           ![m].updated_at = t]
                  ELSE db.messages
          ts == fromisoformat(ReplaceZ(e.timestamp))
      IN  IF ~ts.ok
          THEN Outcome(msgs, db.events, db.suppressions, m, TRUE)
          ELSE Outcome(msgs,
                       Append(db.events, EventRow(m, "delivery", "-", e, ts.value)),
                       db.suppressions, m, FALSE)

handle_bounce(db, e, t) ==
    LET m == get_message_by_ses_id(db.messages, e.messageId) IN
    IF m = None
    THEN Outcome(db.messages, db.events, db.suppressions, None, FALSE)
    ELSE
      LET bounce_type_mapped == IF e.bounceType = "Permanent" THEN "hard" ELSE "soft"
          msgs == [db.messages EXCEPT ![m].status = "bounced", ![m].updated_at = t]
          ts == fromisoformat(ReplaceZ(e.timestamp))
      IN  IF ~ts.ok
          THEN Outcome(msgs, db.events, db.suppressions, m, TRUE)
          ELSE Outcome(msgs,
                       Append(db.events,
                              EventRow(m, "bounce", bounce_type_mapped, e, ts.value)),
                       IF bounce_type_mapped = "hard"
                       THEN add_to_suppression_list(db.suppressions,
                                                    db.messages[m].to_email,
                                                    "hard_bounce")
                       ELSE db.suppressions,
                       m, FALSE)

\* handle_complaint applying the status only after delivery
handle_complaint_after_delivery_only(db, e, t) ==
    LET m == get_message_by_ses_id(db.messages, e.messageId) IN
    IF m = None
    THEN Outcome(db.messages, db.events, db.suppressions, None, FALSE)
    ELSE
      LET msgs == IF db.messages[m].status = "delivered"
                  THEN [db.messages EXCEPT ![m].status = "complained",
                                           ![m].updated_at = t]
                  ELSE db.messages
          ts == fromisoformat(ReplaceZ(e.timestamp))
      IN  IF ~ts.ok
          THEN Outcome(msgs, db.events, db.suppressions, m, TRUE)
          ELSE Outcome(msgs,
                       Append(db.events, EventRow(m, "complaint", "-", e, ts.value)),
                       add_to_suppression_list(db.suppressions,
                                               db.messages[m].to_email, "complaint"),
                       m, FALSE)

handle_complaint(db, e, t) ==
    LET m == get_message_by_ses_id(db.messages, e.messageId) IN
    IF m = None
    THEN Outcome(db.messages, db.events, db.suppressions, None, FALSE)
    ELSE
      LET msgs == [db.messages EXCEPT ![m].status = "complained", ![m].updated_at = t]
          ts == fromisoformat(ReplaceZ(e.timestamp))
      IN  IF ~ts.ok
          THEN Outcome(msgs, db.events, db.suppressions, m, TRUE)
          ELSE Outcome(msgs,
                       Append(db.events, EventRow(m, "complaint", "-", e, ts.value)),
                       add_to_suppression_list(db.suppressions,
                                               db.messages[m].to_email, "complaint"),
                       m, FALSE)

\* handle_delivery_delay without the "if currently sent" guard
handle_delivery_delay_unguarded(db, e, t) ==
    LET m == get_message_by_ses_id(db.messages, e.messageId) IN
    IF m = None
    THEN Outcome(db.messages, db.events, db.suppressions, None, FALSE)
    ELSE
      LET old == db.messages[m]
          deferred == [old EXCEPT !.status = "deferred",
                                  !.first_deferred_at =
                                      IF old.first_deferred_at = None
                                      THEN t ELSE old.first_deferred_at]
          msgs == [db.messages EXCEPT ![m] = [deferred EXCEPT !.updated_at = t]]
          ts == fromisoformat(ReplaceZ(e.timestamp))
      IN  IF ~ts.ok
          THEN Outcome(msgs, db.events, db.suppressions, m, TRUE)
          ELSE Outcome(msgs,
                       Append(db.events, EventRow(m, "delay", "-", e, ts.value)),
                       db.suppressions, m, FALSE)

\* handle_delivery_delay stamping first_deferred_at on every delay of an
\* undelivered Message (no "is None" check)
handle_delivery_delay_restamps(db, e, t) ==
    LET m == get_message_by_ses_id(db.messages, e.messageId) IN
    IF m = None
    THEN Outcome(db.messages, db.events, db.suppressions, None, FALSE)
    ELSE
      LET old == db.messages[m]
          deferred == IF old.status \in {"sent", "deferred"}
                      THEN [old EXCEPT !.status = "deferred",
                                       !.first_deferred_at = t]
                      ELSE old
          msgs == [db.messages EXCEPT ![m] = [deferred EXCEPT !.updated_at = t]]
          ts == fromisoformat(ReplaceZ(e.timestamp))
      IN  IF ~ts.ok
          THEN Outcome(msgs, db.events, db.suppressions, m, TRUE)
          ELSE Outcome(msgs,
                       Append(db.events, EventRow(m, "delay", "-", e, ts.value)),
                       db.suppressions, m, FALSE)

handle_delivery_delay(db, e, t) ==
    LET m == get_message_by_ses_id(db.messages, e.messageId) IN
    IF m = None
    THEN Outcome(db.messages, db.events, db.suppressions, None, FALSE)
    ELSE
      LET old == db.messages[m]
          deferred == IF old.status = "sent"
                      THEN [old EXCEPT !.status = "deferred",
                                       !.first_deferred_at =
                                           IF old.first_deferred_at = None
                                           THEN t ELSE old.first_deferred_at]
                      ELSE old
          msgs == [db.messages EXCEPT ![m] = [deferred EXCEPT !.updated_at = t]]
          ts == fromisoformat(ReplaceZ(e.timestamp))
      IN  IF ~ts.ok
          THEN Outcome(msgs, db.events, db.suppressions, m, TRUE)
          ELSE Outcome(msgs,
                       Append(db.events, EventRow(m, "delay", "-", e, ts.value)),
                       db.suppressions, m, FALSE)

\* handle_reject without the "if not message: return" early return: the
\* first attribute access on None raises
handle_reject_no_early_return(db, e, t) ==
    LET m == get_message_by_ses_id(db.messages, e.messageId) IN
    IF m = None
    THEN Outcome(db.messages, db.events, db.suppressions, None, TRUE)
    ELSE
      LET msgs == [db.messages EXCEPT ![m].status = "rejected", ![m].updated_at = t]
          ts == fromisoformat(ReplaceZ(e.timestamp))
      IN  IF ~ts.ok
          THEN Outcome(msgs, db.events, db.suppressions, m, TRUE)
          ELSE Outcome(msgs,
                       Append(db.events, EventRow(m, "reject", "-", e, ts.value)),
                       db.suppressions, m, FALSE)

handle_reject(db, e, t) ==
    LET m == get_message_by_ses_id(db.messages, e.messageId) IN
    IF m = None
    THEN Outcome(db.messages, db.events, db.suppressions, None, FALSE)
    ELSE
      LET msgs == [db.messages EXCEPT ![m].status = "rejected", ![m].updated_at = t]
          ts == fromisoformat(ReplaceZ(e.timestamp))
      IN  IF ~ts.ok
          THEN Outcome(msgs, db.events, db.suppressions, m, TRUE)
          ELSE Outcome(msgs,
                       Append(db.events, EventRow(m, "reject", "-", e, ts.value)),
                       db.suppressions, m, FALSE)

\* process_ses_event indexing handlers[event_type]: KeyError for an
\* eventType without a handler
process_ses_event_indexing(db, e, t) ==
    CASE e.eventType = "Delivery"      -> handle_delivery(db, e, t)
      [] e.eventType = "Bounce"        -> handle_bounce(db, e, t)
      [] e.eventType = "Complaint"     -> handle_complaint(db, e, t)
      [] e.eventType = "DeliveryDelay" -> handle_delivery_delay(db, e, t)
      [] e.eventType = "Reject"        -> handle_reject(db, e, t)
      [] OTHER -> Outcome(db.messages, db.events, db.suppressions, None, TRUE)

\* The router: return for an event without eventType, handlers.get(event_type)
\* and a warning for an eventType without a handler
process_ses_event(db, e, t) ==
    CASE e.eventType = "Delivery"      -> handle_delivery(db, e, t)
      [] e.eventType = "Bounce"        -> handle_bounce(db, e, t)
      [] e.eventType = "Complaint"     -> handle_complaint(db, e, t)
      [] e.eventType = "DeliveryDelay" -> handle_delivery_delay(db, e, t)
      [] e.eventType = "Reject"        -> handle_reject(db, e, t)
      [] OTHER -> Outcome(db.messages, db.events, db.suppressions, None, FALSE)

\* ------------------------------------------------------------------- state
Db == [messages |-> messages, events |-> events, suppressions |-> suppressions]

Handlers == {1, 2}
IdleSession == [pc |-> "idle"]
NoReply == [op |-> "none"]

Init ==
    /\ messages = <<>>
    /\ events = <<>>
    /\ suppressions = <<>>
    /\ now = 1
    /\ handled = <<>>
    /\ sessions = [h \in Handlers |-> IdleSession]
    /\ base = [messages |-> <<>>, events |-> <<>>, suppressions |-> <<>>]
    /\ batch = <<>>
    /\ click_events = <<>>
    /\ reply = NoReply
    /\ tracked = <<>>
    /\ cert_cache = EmptyCache

\* Does some Message carry the correlation id, plain or wrapped
Matches(id) ==
    \E i \in DOMAIN messages :
        id \in {messages[i].ses_message_id, Wrap(messages[i].ses_message_id)}

\* Is the address on the suppression list, compared case-insensitively
Listed(email) ==
    \E i \in DOMAIN suppressions : Lower(suppressions[i].email) = Lower(email)

\* The entry the log keeps for one handled event
LogEntry(e, m, r) ==
    [eventType |-> e.eventType, bounceType |-> e.bounceType,
     matches |-> Matches(e.messageId), message_id |-> m,
     status_before |-> IF m = None THEN "-" ELSE messages[m].status,
     raised |-> r, at |-> now]

\* ------------------------------------------------------------------ actions
\* POST /emails/send: send_email, then get_session commits (or rolls back
\* when send_email raised).
SendEmail(to, wrapped, accepted) ==
    /\ now <= MaxRequests
    /\ Len(messages) < MaxMessages
    /\ now' = now + 1
    /\ IF check_suppression(suppressions, to) \/ ~accepted
       THEN messages' = messages
       ELSE LET id == ProviderId(Len(messages) + 1)
                ses_message_id == IF wrapped THEN Wrap(id) ELSE id
            IN  messages' = Append(messages,
                    [ses_message_id |-> StripAngleBrackets(ses_message_id),
                     to_email |-> Lower(to),
                     status |-> "sent",
                     first_deferred_at |-> None,
                     opened_at |-> None,
                     created_at |-> now,
                     updated_at |-> now])
    /\ reply' = [op |-> "send_email",
                 listed |-> Listed(to),
                 provider_called |-> ~check_suppression(suppressions, to),
                 code |-> CASE check_suppression(suppressions, to)
                                   -> "EMAIL_SUPPRESSED"
                            [] ~check_suppression(suppressions, to) /\ ~accepted
                                   -> "SES_ERROR"
                            [] OTHER -> "OK"]
    /\ UNCHANGED <<cert_cache, events, suppressions, handled, sessions, base, batch,
                   click_events, tracked>>

\* POST /webhooks/ses with a verified Notification carrying e, run to
\* completion: process_ses_event, the route swallowing any exception, and
\* the session's commit.
ProcessNotification(e) ==
    /\ now <= MaxRequests
    /\ LET r == process_ses_event(Db, e, now) IN
         /\ messages' = r.messages
         /\ events' = r.events
         /\ suppressions' = r.suppressions
         /\ handled' = Append(handled, LogEntry(e, r.message_id, r.raised))
    /\ now' = now + 1
    /\ UNCHANGED <<sessions, base, batch, click_events, tracked>>

Webhook(e) ==
    /\ ProcessNotification(e)
    /\ reply' = [op |-> "webhook", code |-> "success"]
    /\ UNCHANGED cert_cache

HandleDelivery(e)      == e.eventType = "Delivery" /\ Webhook(e)
HandleBounce(e)        == e.eventType = "Bounce" /\ Webhook(e)
HandleComplaint(e)     == e.eventType = "Complaint" /\ Webhook(e)
HandleDeliveryDelay(e) == e.eventType = "DeliveryDelay" /\ Webhook(e)
HandleReject(e)        == e.eventType = "Reject" /\ Webhook(e)

Next ==
    \/ \E to \in Recipients, wrapped \in BOOLEAN, accepted \in BOOLEAN :
           SendEmail(to, wrapped, accepted)
    \/ \E e \in SesEvents : HandleDelivery(e)
    \/ \E e \in SesEvents : HandleBounce(e)
    \/ \E e \in SesEvents : HandleComplaint(e)
    \/ \E e \in SesEvents : HandleDeliveryDelay(e)
    \/ \E e \in SesEvents : HandleReject(e)

Spec == Init /\ [][Next]_vars

\* --------------------------------------------- overlapping request handlers
\* SpecConc: each webhook request runs in its own session (get_session) and
\* its steps interleave with the other handler's at every await on the store:
\* the SELECT of the Message, the SELECT of add_to_suppression_list, and the
\* flush followed by the commit.  No query takes a row lock (there is no
\* SELECT ... FOR UPDATE), each statement sees the rows committed so far, and
\* the flush writes the attributes the handler changed on its loaded copy.

Quiescent == \A h \in Handlers : sessions[h].pc = "idle"

\* Does the event call add_to_suppression_list, and with which reason
Escalates(e) ==
    \/ e.eventType = "Bounce" /\ e.bounceType = "Permanent"
    \/ e.eventType = "Complaint"
EscalationReason(e) ==
    IF e.eventType = "Complaint" THEN "complaint" ELSE "hard_bounce"

\* The handler receives e and runs up to its next await after the SELECT of
\* the Message: the loaded row, the row as changed in memory, and the Event
\* it added to the session (none when it raised).
Receive(h, e) ==
    /\ now <= MaxConcRequests
    /\ sessions[h].pc = "idle"
    /\ now' = now + 1
    /\ LET m == get_message_by_ses_id(messages, e.messageId)
           r == process_ses_event(
                    [messages |-> messages, events |-> <<>>,
                     suppressions |-> suppressions], e, now)
       IN  /\ sessions' =
                 IF m = None
                 THEN sessions
                 ELSE [sessions EXCEPT ![h] =
                         [pc |-> IF ~r.raised /\ Escalates(e)
                                 THEN "select_suppression" ELSE "flush",
                          event |-> e,
                          message_id |-> m,
                          loaded |-> messages[m],
                          current |-> r.messages[m],
                          new_events |-> r.events,
                          new_suppression |-> <<>>,
                          raised |-> r.raised]]
           /\ IF Quiescent
              THEN /\ base' = Db
                   /\ batch' = <<[event |-> e, message_id |-> m]>>
              ELSE /\ base' = base
                   /\ batch' = Append(batch, [event |-> e, message_id |-> m])
    /\ UNCHANGED <<cert_cache, messages, events, suppressions, handled, click_events, reply,
                   tracked>>

\* add_to_suppression_list: the SELECT against the rows committed so far,
\* and db.add of the new row when none exists
SelectSuppression(h) ==
    /\ sessions[h].pc = "select_suppression"
    /\ LET ss == sessions[h]
           after == add_to_suppression_list(suppressions, ss.loaded.to_email,
                                            EscalationReason(ss.event))
       IN  sessions' = [sessions EXCEPT ![h].pc = "flush",
                            ![h].new_suppression =
                                IF after = suppressions
                                THEN <<>>
                                ELSE <<after[Len(after)]>>]
    /\ UNCHANGED <<cert_cache, messages, events, suppressions, now, handled, base, batch,
                   click_events, reply, tracked>>

\* UPDATE messages SET <changed attributes> WHERE id = m
FlushedRow(row, loaded, current) ==
    [row EXCEPT
        !.status = IF current.status # loaded.status
                   THEN current.status ELSE row.status,
        !.first_deferred_at = IF current.first_deferred_at # loaded.first_deferred_at
                              THEN current.first_deferred_at
                              ELSE row.first_deferred_at,
        !.updated_at = IF current.updated_at # loaded.updated_at
                       THEN current.updated_at ELSE row.updated_at]

\* db.flush() and the commit of get_session.  An INSERT that breaks the
\* unique index on suppressions.email fails the flush: the transaction is
\* rolled back and none of the session's changes is stored.
FlushCommit(h) ==
    /\ sessions[h].pc = "flush"
    /\ LET ss == sessions[h]
           conflict == \E i \in DOMAIN ss.new_suppression :
                           check_suppression(suppressions, ss.new_suppression[i].email)
       IN  IF conflict
           THEN UNCHANGED <<messages, events, suppressions>>
           ELSE /\ messages' = [messages EXCEPT ![ss.message_id] =
                                   FlushedRow(@, ss.loaded, ss.current)]
                /\ events' = events \o ss.new_events
                /\ suppressions' = suppressions \o ss.new_suppression
    /\ sessions' = [sessions EXCEPT ![h] = IdleSession]
    /\ UNCHANGED <<cert_cache, now, handled, base, batch, click_events, reply, tracked>>

NextConc ==
    \/ \E to \in Recipients, wrapped \in BOOLEAN, accepted \in BOOLEAN :
           SendEmail(to, wrapped, accepted)
    \/ \E h \in Handlers, e \in SesEvents : Receive(h, e)
    \/ \E h \in Handlers : SelectSuppression(h)
    \/ \E h \in Handlers : FlushCommit(h)

SpecConc == Init /\ [][NextConc]_vars

\* ------------------------------------------- suppression list management
\* SpecSupp: the send path and every writer of the suppression list, each
\* request run to completion: the escalating webhook events, the manual add
\* and the removal of the suppression API, and the unsubscribe confirmation.
ManualReasons == {"manual"}

\* POST /suppressions
AddSuppression(email, reason) ==
    /\ now <= MaxRequests
    /\ now' = now + 1
    /\ LET r == add_suppression(suppressions, email, reason) IN
         /\ suppressions' = r.suppressions
         /\ reply' = [op |-> "add_suppression", code |-> r.code]
    /\ UNCHANGED <<cert_cache, messages, events, handled, sessions, base, batch, click_events, tracked>>

\* DELETE /suppressions/{email}
RemoveSuppression(email) ==
    /\ now <= MaxRequests
    /\ now' = now + 1
    /\ LET r == remove_suppression(suppressions, email) IN
         /\ suppressions' = r.suppressions
         /\ reply' = [op |-> "remove_suppression", removed |-> r.removed]
    /\ UNCHANGED <<cert_cache, messages, events, handled, sessions, base, batch, click_events, tracked>>

\* POST /unsubscribe/{token} with a valid token for the address
ProcessUnsubscribe(email) ==
    /\ now <= MaxRequests
    /\ now' = now + 1
    /\ suppressions' = process_unsubscribe(suppressions, email)
    /\ reply' = [op |-> "unsubscribe", code |-> "success"]
    /\ UNCHANGED <<cert_cache, messages, events, handled, sessions, base, batch, click_events, tracked>>

\* A webhook event that calls add_to_suppression_list
Escalation(e) == Escalates(e) /\ Webhook(e)

NextSupp ==
    \/ \E to \in Recipients, wrapped \in BOOLEAN, accepted \in BOOLEAN :
           SendEmail(to, wrapped, accepted)
    \/ \E e \in SesEvents : Escalation(e)
    \/ \E email \in Recipients, reason \in ManualReasons :
           AddSuppression(email, reason)
    \/ \E email \in Recipients : RemoveSuppression(email)
    \/ \E email \in Recipients : ProcessUnsubscribe(email)

SpecSupp == Init /\ [][NextSupp]_vars

\* ------------------------------------------------ open and click tracking
\* SpecTrack: the send path and the two tracking routes, each request run to
\* completion (the service call, then the commit of get_session).

\* The Message whose id renders as the tracking id (None if none does)
Known(id) ==
    IF \E i \in DOMAIN messages : UuidStr(i) = id
    THEN CHOOSE i \in DOMAIN messages : UuidStr(i) = id
    ELSE None

\* The entry the log keeps for one tracking call
TrackEntry(op, id, result) ==
    [op |-> op, message_id |-> Known(id), result |-> result, at |-> now]

\* GET /track/open/{tracking_id}
RecordOpen(id) ==
    /\ now <= MaxRequests
    /\ now' = now + 1
    /\ LET r == record_open(messages, id, now) IN
         /\ messages' = r.messages
         /\ tracked' = Append(tracked, TrackEntry("open", id, r.result))
    /\ reply' = [op |-> "track_open", code |-> "pixel"]
    /\ UNCHANGED <<cert_cache, events, suppressions, handled, sessions, base, batch,
                   click_events>>

\* GET /track/click/{tracking_id}?url=...
RecordClick(id, url) ==
    /\ now <= MaxRequests
    /\ now' = now + 1
    /\ LET r == record_click(messages, click_events, id, url, now) IN
         /\ click_events' = r.click_events
         /\ tracked' = Append(tracked, TrackEntry("click", id, r.result))
    /\ reply' = [op |-> "track_click", code |-> "redirect"]
    /\ UNCHANGED <<cert_cache, messages, events, suppressions, handled, sessions, base, batch>>

NextTrack ==
    \/ \E to \in Recipients, wrapped \in BOOLEAN, accepted \in BOOLEAN :
           SendEmail(to, wrapped, accepted)
    \/ \E id \in TrackingIds : RecordOpen(id)
    \/ \E id \in TrackingIds, url \in Urls : RecordClick(id, url)

SpecTrack == Init /\ [][NextTrack]_vars

\* SpecTrackConc: two open-tracking requests as overlapping request handlers,
\* each with its own session.  record_open awaits the store twice: at the
\* SELECT of the Message (a plain SELECT, no row lock) and at the flush, which
\* writes the attributes it set on its loaded copy; get_session then commits.

\* The handler receives the request and runs record_open up to its flush
OpenSelect(h, id) ==
    /\ now <= MaxConcRequests
    /\ sessions[h].pc = "idle"
    /\ now' = now + 1
    /\ LET m == get_message_by_id(messages, id)
           r == record_open(messages, id, now)
       IN  IF r.result
           THEN /\ sessions' = [sessions EXCEPT ![h] =
                                   [pc |-> "open_flush",
                                    tracking_id |-> id,
                                    message_id |-> m,
                                    current |-> r.messages[m]]]
                /\ UNCHANGED <<tracked, reply>>
           ELSE /\ sessions' = sessions
                /\ tracked' = Append(tracked, TrackEntry("open", id, FALSE))
                /\ reply' = [op |-> "track_open", code |-> "pixel"]
    /\ UNCHANGED <<cert_cache, messages, events, suppressions, handled, base, batch,
                   click_events>>

\* UPDATE messages SET opened_at, updated_at WHERE id = m, the commit, and
\* the return of true
OpenFlush(h) ==
    /\ sessions[h].pc = "open_flush"
    /\ LET ss == sessions[h] IN
         /\ messages' = [messages EXCEPT
                            ![ss.message_id].opened_at = ss.current.opened_at,
                            ![ss.message_id].updated_at = ss.current.updated_at]
         /\ tracked' = Append(tracked,
                              [op |-> "open", message_id |-> ss.message_id,
                               result |-> TRUE, at |-> ss.current.opened_at])
    /\ sessions' = [sessions EXCEPT ![h] = IdleSession]
    /\ reply' = [op |-> "track_open", code |-> "pixel"]
    /\ UNCHANGED <<cert_cache, events, suppressions, now, handled, base, batch, click_events>>

NextTrackConc ==
    \/ \E to \in Recipients, wrapped \in BOOLEAN, accepted \in BOOLEAN :
           SendEmail(to, wrapped, accepted)
    \/ \E h \in Handlers, id \in TrackingIds : OpenSelect(h, id)
    \/ \E h \in Handlers : OpenFlush(h)

SpecTrackConc == Init /\ [][NextTrackConc]_vars

\* ------------------------------------------------------ the webhook route
\* SpecRoute: POST /webhooks/ses from the raw body on.  A body is no JSON, a
\* JSON document that is no SNS envelope, or an envelope: a dict with its
\* Type, its SigningCertURL and its Signature, sent while the certificate
\* host answers net and the SubscribeURL answers confirm, and carrying in
\* Message the JSON of event or a string that is no JSON.

\* An envelope before it is signed: the fields SNSMessage requires, and
\* SubscribeURL and Token when has_url
Unsigned(type, cert_url, msg, has_url) ==
    LET keys == {"Type", "MessageId", "Message", "Timestamp", "TopicArn",
                 "SignatureVersion", "SigningCertURL"}
                \cup (IF has_url THEN {"SubscribeURL", "Token"} ELSE {})
    IN  [k \in keys |->
            CASE k = "Type" -> type
              [] k = "SigningCertURL" -> cert_url
              [] k = "Message" -> msg
              [] k = "MessageId" -> "sns-1"
              [] k = "Timestamp" -> "2024-01-15T10:30:00.000Z"
              [] k = "TopicArn" -> "arn:aws:sns:us-east-1:123456:ses"
              [] k = "SignatureVersion" -> "1"
              [] k = "SubscribeURL" -> "https://sns.us-east-1.amazonaws.com/confirm"
              [] k = "Token" -> "abc123"]

\* The envelope m with the field k set to v
WithField(m, k, v) == [f \in DOMAIN m \cup {k} |-> IF f = k THEN v ELSE m[f]]

\* The envelope m without the field k
WithoutField(m, k) == [f \in DOMAIN m \ {k} |-> m[f]]

\* The envelope m as SNS sends it: signed over its canonical string.
\* signed "sns" is the signature of the certificate's key, "other" one of
\* another key, "not_base64" a Signature that is no base64.
Signed(m, signed) ==
    WithField(m, "Signature",
              CASE signed = "sns" -> Sign(SnsKey, build_signature_string(m).value)
                [] signed = "other" -> Sign(OtherKey, build_signature_string(m).value)
                [] OTHER -> NotBase64)

\* Events process_ses_event has no handler for: an eventType it does not
\* know, and no eventType at all
OtherEvents ==
    {[eventType |-> t, messageId |-> Wrap(ProviderId(1)), bounceType |-> "-",
      timestamp |-> <<"2024-01-15T10:30:01.000", "Z">>] : t \in {"Open", JsonNull}}

SnsEnvelope(type, cert_url, signed, net, msg, e, has_url, confirm) ==
    [body |-> "envelope", signed |-> signed, net |-> net, event |-> e,
     confirm |-> confirm,
     message |-> Signed(Unsigned(type, cert_url, msg, has_url), signed)]

\* The events the requests of SpecRoute carry: for the first Message, of
\* the three types that change its status for good, with either timestamp
RouteEvents ==
    {e \in SesEvents :
        /\ e.messageId = Wrap(ProviderId(1))
        /\ e.eventType \in {"Delivery", "Bounce", "Complaint"}
        /\ e.bounceType \in {"-", "Permanent"}}

SnsUrl == [scheme |-> "https", netloc |-> <<"sns", "us-east-1", "amazonaws", "com">>]
AnEvent == CHOOSE e \in RouteEvents : e.eventType = "Delivery"

SnsRequests ==
    {[body |-> "invalid_json"], [body |-> "invalid_envelope"]}
    \cup
    {SnsEnvelope("Notification", u, signed, "pem", "{...}", AnEvent, FALSE, "-") :
        u \in CertUrls, signed \in {"sns", "other"}}
    \cup
    {SnsEnvelope("Notification", SnsUrl, "sns", "pem", "{...}", e, FALSE, "-") :
        e \in RouteEvents \cup OtherEvents}
    \cup
    {SnsEnvelope("Notification", SnsUrl, "sns", "pem", "not json", AnEvent,
                 FALSE, "-")}
    \cup
    {SnsEnvelope("Notification", SnsUrl, signed, net, "{...}", AnEvent,
                 FALSE, "-") :
        signed \in {"sns", "not_base64"}, net \in {"unreachable", "not_pem"}}
    \cup
    {SnsEnvelope("SubscriptionConfirmation", SnsUrl, signed, "pem", "confirm",
                 AnEvent, has_url, confirm) :
        signed \in {"sns", "other"}, has_url \in BOOLEAN,
        confirm \in {"ok", "fail"}}
    \cup
    {SnsEnvelope(type, SnsUrl, signed, "pem", "{...}", AnEvent, FALSE, "-") :
        type \in {"UnsubscribeConfirmation", "SomethingElse"},
        signed \in {"sns", "other"}}

\* What the reply keeps of the request: everything but the event
RequestFacts(req) ==
    IF req.body = "envelope"
    THEN [body |-> req.body,
          Type |-> req.message["Type"],
          cert_url |-> req.message["SigningCertURL"],
          signature_ok |-> req.signed = "sns",
          signed |-> req.signed,
          net |-> req.net,
          inner_json |-> req.message["Message"] # "not json",
          has_url |-> "SubscribeURL" \in DOMAIN req.message,
          confirm |-> req.confirm]
    ELSE req

\* schemas.common.raise_api_error: an HTTPException with the status code,
\* and the WebhookResponse(success=True, ...) the route returns (HTTP 200)
raise_api_error(code, status_code) ==
    [raised |-> TRUE, success |-> FALSE, status_code |-> status_code,
     detail |-> code]
WebhookResponse(message) ==
    [raised |-> FALSE, success |-> TRUE, status_code |-> 200,
     detail |-> message]

\* The Notification branch answering 500 when process_ses_event raised
notification_response_failing(raised) ==
    IF raised
    THEN [raised |-> FALSE, success |-> FALSE, status_code |-> 500,
          detail |-> "Event logged with errors"]
    ELSE WebhookResponse("SES event processed")

\* The try around process_ses_event: both ways out return a success
\* WebhookResponse
notification_response(raised) ==
    IF raised
    THEN WebhookResponse("Event logged with errors")
    ELSE WebhookResponse("SES event processed")

\* What one way out of the route's try leaves: the response it returned or
\* the HTTPException it raised, the certificate cache, and the GETs made
\* for the certificate and for the SubscribeURL; the session is untouched.
Stop(db, resp, c, n, g) ==
    [response |-> resp,
     outcome |-> Outcome(db.messages, db.events, db.suppressions, None, FALSE),
     processed |-> FALSE, cache |-> c, fetches |-> n, confirm_gets |-> g]

\* The Notification branch once process_ses_event left r in the session
notification_branch(v, r) ==
    [response |-> notification_response(r.raised), outcome |-> r,
     processed |-> TRUE, cache |-> v.cache, fetches |-> v.fetches,
     confirm_gets |-> 0]

\* handle_ses_webhook from the result v of verify_sns_signature on: 403 for
\* False and for ValueError, then the branch of the envelope's Type
dispatch_sns_message(req, db, t, v) ==
    CASE v.result = "invalid" ->
             Stop(db, raise_api_error("INVALID_SIGNATURE", 403),
                  v.cache, v.fetches, 0)
      [] v.result = "error" ->
             Stop(db, raise_api_error("SIGNATURE_VERIFICATION_ERROR", 403),
                  v.cache, v.fetches, 0)
      [] v.result = "valid" /\ req.message["Type"] = "SubscriptionConfirmation" ->
             IF Get(req.message, "SubscribeURL") = JsonNull
             THEN Stop(db, raise_api_error("MISSING_SUBSCRIBE_URL", 400),
                       v.cache, v.fetches, 0)
             ELSE IF req.confirm = "ok"
             THEN Stop(db, WebhookResponse("Subscription confirmed"),
                       v.cache, v.fetches, 1)
             ELSE Stop(db, raise_api_error("SUBSCRIPTION_CONFIRMATION_FAILED", 500),
                       v.cache, v.fetches, 1)
      [] v.result = "valid" /\ req.message["Type"] = "Notification" ->
             IF req.message["Message"] = "not json"
             THEN Stop(db, raise_api_error("INVALID_SES_EVENT", 400),
                       v.cache, v.fetches, 0)
             ELSE notification_branch(v, process_ses_event(db, req.event, t))
      [] OTHER ->
             Stop(db, WebhookResponse("Unknown message type"),
                  v.cache, v.fetches, 0)

\* The body of the outer try of handle_ses_webhook on the store db and the
\* certificate cache: json.loads, SNSMessage(**...), verify_sns_signature
\* and the dispatch on its result
handle_ses_webhook_try(req, db, cache, t) ==
    CASE req.body = "invalid_json" ->
             Stop(db, raise_api_error("INVALID_JSON", 400), cache, 0, 0)
      [] req.body = "invalid_envelope" ->
             Stop(db, raise_api_error("INVALID_SNS_MESSAGE", 400), cache, 0, 0)
      [] OTHER ->
             dispatch_sns_message(req, db, t,
                 verify_sns_signature(req.message, cache, req.net))

\* The outer "except Exception": whatever the body raised, the HTTPException
\* of raise_api_error included, becomes a success WebhookResponse;
\* swallowed keeps what was raised.
catch_all(a) ==
    [response |-> IF a.response.raised
                  THEN WebhookResponse("Webhook received with errors")
                  ELSE a.response,
     swallowed |-> IF a.response.raised THEN a.response.detail ELSE "-",
     outcome |-> a.outcome,
     processed |-> a.processed,
     cache |-> a.cache,
     fetches |-> a.fetches,
     confirm_gets |-> a.confirm_gets]

\* handle_ses_webhook
handle_ses_webhook(req, db, cache, t) ==
    catch_all(handle_ses_webhook_try(req, db, cache, t))

\* The answer a of handle_ses_webhook sent and its session committed
\* (get_session)
CommitWebhook(req, a) ==
    /\ reply' = [op |-> "ses_webhook",
                 code |-> IF a.response.success THEN "success" ELSE "error",
                 status_code |-> a.response.status_code,
                 detail |-> a.response.detail,
                 swallowed |-> a.swallowed,
                 fetches |-> a.fetches,
                 confirm_gets |-> a.confirm_gets,
                 request |-> RequestFacts(req)]
    /\ cert_cache' = a.cache
    /\ messages' = a.outcome.messages
    /\ events' = a.outcome.events
    /\ suppressions' = a.outcome.suppressions
    /\ handled' = IF a.processed
                  THEN Append(handled, LogEntry(req.event, a.outcome.message_id,
                                                a.outcome.raised))
                  ELSE handled

\* POST /webhooks/ses run to completion
HandleSesWebhook(req) ==
    /\ now <= MaxRouteRequests
    /\ CommitWebhook(req, handle_ses_webhook(req, Db, cert_cache, now))
    /\ now' = now + 1
    /\ UNCHANGED <<sessions, base, batch, click_events, tracked>>

NextRoute ==
    \/ \E to \in Recipients, wrapped \in BOOLEAN, accepted \in BOOLEAN :
           SendEmail(to, wrapped, accepted)
    \/ \E req \in SnsRequests : HandleSesWebhook(req)

SpecRoute == Init /\ [][NextRoute]_vars

\* ------------------------------------------------- the signature verifier
\* The certificate URLs of SNS: https and host sns.<region>.amazonaws.com[.cn]
TrustedCertUrls ==
    {[scheme |-> "https", netloc |-> <<"sns", "us-east-1", "amazonaws", "com">>],
     [scheme |-> "https", netloc |-> <<"sns", "cn-north-1", "amazonaws", "com", "cn">>]}

\* SpecCert: the calls into sns_validator, each run to completion on the
\* process-wide certificate cache: verify_sns_signature on an envelope while
\* the certificate host answers net, and clear_certificate_cache.
Nets == {"pem", "unreachable", "not_pem"}

\* The envelopes verified: of a Type with a field list and of one without,
\* with every certificate URL, signed by the key of the certificate, by
\* another key, or carrying a Signature that is no base64; one whose Message
\* was changed after it was signed; and one per required field without it.
CertRequests ==
    {[message |-> Signed(Unsigned(type, u, "{...}", FALSE), signed),
      signed |-> signed, net |-> net] :
        type \in {"Notification", "SubscriptionConfirmation", "SomethingElse"},
        u \in CertUrls, signed \in {"sns", "other", "not_base64"}, net \in Nets}
    \cup
    {[message |-> WithField(Signed(Unsigned("Notification", SnsUrl, "{...}", FALSE),
                                   "sns"),
                            "Message", "{tampered}"),
      signed |-> "tampered", net |-> net] : net \in Nets}
    \cup
    {[message |-> WithoutField(Signed(Unsigned("Notification", SnsUrl, "{...}", FALSE),
                                      "sns"),
                               f),
      signed |-> "sns", net |-> "pem"] : f \in RequiredFields}

\* await verify_sns_signature(message)
VerifySnsSignature(req) ==
    /\ now <= MaxCertRequests
    /\ now' = now + 1
    /\ LET v == verify_sns_signature(req.message, cert_cache, req.net) IN
         /\ cert_cache' = v.cache
         /\ reply' = [op |-> "verify_sns_signature",
                      message |-> req.message,
                      signed |-> req.signed,
                      net |-> req.net,
                      cached |-> /\ "SigningCertURL" \in DOMAIN req.message
                                 /\ req.message["SigningCertURL"] \in DOMAIN cert_cache,
                      result |-> v.result,
                      fetches |-> v.fetches]
    /\ UNCHANGED <<messages, events, suppressions, handled, sessions, base,
                   batch, click_events, tracked>>

\* clear_certificate_cache()
ClearCertificateCache ==
    /\ now <= MaxCertRequests
    /\ now' = now + 1
    /\ cert_cache' = clear_certificate_cache(cert_cache)
    /\ reply' = [op |-> "clear_certificate_cache"]
    /\ UNCHANGED <<messages, events, suppressions, handled, sessions, base,
                   batch, click_events, tracked>>

\* The envelopes a canonical string is built for: of each Type, with every
\* choice of the optional fields (a Subject may also be null)
OptionalFields == {"Subject", "SubscribeURL", "Token", "TopicArn"}
SignInputs ==
    {[k \in {"Type", "MessageId", "Message", "Timestamp", "SignatureVersion",
              "Signature", "SigningCertURL"} \cup opt |->
         CASE k = "Type" -> type
           [] k = "MessageId" -> "sns-1"
           [] k = "Message" -> "{...}"
           [] k = "Timestamp" -> "2024-01-15T10:30:00.000Z"
           [] k = "SignatureVersion" -> ver
           [] k = "Signature" -> Sign(key, <<>>)
           [] k = "SigningCertURL" -> url
           [] k = "Subject" -> subj
           [] k = "SubscribeURL" -> "https://sns.us-east-1.amazonaws.com/confirm"
           [] k = "Token" -> "abc123"
           [] k = "TopicArn" -> "arn:aws:sns:us-east-1:123456:ses"] :
        type \in SignedTypes \cup {"SomethingElse"},
        opt \in SUBSET OptionalFields,
        subj \in {"Hello", JsonNull},
        ver \in {"1"},
        key \in {SnsKey},
        url \in {SnsUrl}}

\* build_signature_string(message)
BuildSignatureString(m) ==
    /\ now <= MaxCertRequests
    /\ now' = now + 1
    /\ LET r == build_signature_string(m) IN
         reply' = [op |-> "build_signature_string", message |-> m,
                   ok |-> r.ok, value |-> r.value]
    /\ UNCHANGED <<cert_cache, messages, events, suppressions, handled,
                   sessions, base, batch, click_events, tracked>>

NextCert ==
    \/ \E req \in CertRequests : VerifySnsSignature(req)
    \/ ClearCertificateCache
    \/ \E m \in SignInputs : BuildSignatureString(m)

SpecCert == Init /\ [][NextCert]_vars

\* ------------------------------------- overlapping certificate fetches
\* SpecCertConc: fetch_signing_certificate in two request handlers of one
\* event loop.  A call runs without interruption up to its await of the GET
\* and, once the response is there, from the parse to the store in the
\* cache; the cache is not looked at again after the await.

\* The call up to the await: a hit or a rejected URL ends it, a miss of a
\* trusted URL leaves the handler waiting for the response
FetchBegin(h, cert_url) ==
    /\ now <= MaxCertRequests
    /\ sessions[h].pc = "idle"
    /\ now' = now + 1
    /\ LET r == fetch_signing_certificate(cert_url, cert_cache, "unreachable") IN
         IF r.fetches = 0
         THEN /\ sessions' = sessions
              /\ reply' = [op |-> "fetch_signing_certificate", cert_url |-> cert_url,
                           outcome |-> IF r.ok THEN "hit" ELSE "rejected"]
         ELSE /\ sessions' = [sessions EXCEPT ![h] =
                                 [pc |-> "fetching", cert_url |-> cert_url]]
              /\ reply' = reply
    /\ UNCHANGED <<cert_cache, messages, events, suppressions, handled, base, batch,
                   click_events, tracked>>

\* The response of the GET, the parse and _cert_cache[cert_url] = certificate
FetchEnd(h, net) ==
    /\ sessions[h].pc = "fetching"
    /\ LET r == fetch_signing_certificate(sessions[h].cert_url, EmptyCache, net) IN
         /\ cert_cache' = [u \in DOMAIN cert_cache \cup DOMAIN r.cache |->
                              IF u \in DOMAIN r.cache THEN r.cache[u]
                              ELSE cert_cache[u]]
         /\ reply' = [op |-> "fetch_signing_certificate",
                      cert_url |-> sessions[h].cert_url,
                      outcome |-> IF r.ok THEN "fetched" ELSE "failed"]
    /\ sessions' = [sessions EXCEPT ![h] = IdleSession]
    /\ UNCHANGED <<messages, events, suppressions, now, handled, base, batch,
                   click_events, tracked>>

NextCertConc ==
    \/ \E h \in Handlers, cert_url \in CertUrls : FetchBegin(h, cert_url)
    \/ \E h \in Handlers, net \in Nets : FetchEnd(h, net)
    \/ ClearCertificateCache

SpecCertConc == Init /\ [][NextCertConc]_vars

\* --------------------------------------------------------- the rate limiter
\* SpecRate: the send path, the passing of time, and the rate-limit check.
\* The clock now counts ticks; an hour is Hour ticks, and a send takes one.
Hour == 3

\* The last tick of a run: sends stop at MaxRequests, time goes on for two
\* hours more
LastTick == MaxRequests + 2 * Hour

\* The hourly limits the check is configured with
RateLimits == {1, 2}

\* check_rate_limit counting the Messages of the current clock hour
check_rate_limit_clock_hour(msgs, t, limit) ==
    LET count == Cardinality({i \in DOMAIN msgs :
                                  msgs[i].created_at \div Hour = t \div Hour})
    IN  [exceeded |-> count >= limit, count |-> count]

\* check_rate_limit(db) under EMAIL_RATE_LIMIT_PER_HOUR = limit at the
\* instant t: the number of Messages created in the hour before t, and
\* whether it has reached the limit
check_rate_limit(msgs, t, limit) ==
    LET count == Cardinality({i \in DOMAIN msgs :
                                  msgs[i].created_at >= t - Hour})
    IN  [exceeded |-> count >= limit, count |-> count]

\* Time passes
Tick(k) ==
    /\ now + k <= LastTick
    /\ now' = now + k
    /\ UNCHANGED <<messages, events, suppressions, handled, sessions, base,
                   batch, click_events, reply, tracked, cert_cache>>

\* exceeded, count = await check_rate_limit(db)
CheckRateLimit(limit) ==
    /\ now <= LastTick
    /\ LET r == check_rate_limit(messages, now, limit) IN
         reply' = [op |-> "check_rate_limit", limit |-> limit,
                   exceeded |-> r.exceeded, count |-> r.count, at |-> now]
    /\ UNCHANGED <<messages, events, suppressions, now, handled, sessions,
                   base, batch, click_events, tracked, cert_cache>>

NextRate ==
    \/ \E to \in Recipients, wrapped \in BOOLEAN, accepted \in BOOLEAN :
           SendEmail(to, wrapped, accepted)
    \/ \E k \in 1..(2 * Hour) : Tick(k)
    \/ \E limit \in RateLimits : CheckRateLimit(limit)

SpecRate == Init /\ [][NextRate]_vars

\* ------------------------------------------------------ the tracking routes
\* SpecTrackRoute: the send path and the two tracking endpoints as the
\* caller sees them, each request run to completion: the validation of the
\* declared parameters, the route function with its try/except blocks around
\* the tracking service, and the response.

\* The base64 alphabet, and the value of a character in it
Base64Alphabet ==
    <<"A", "B", "C", "D", "E", "F", "G", "H", "I", "J", "K", "L", "M", "N", "O", "P",
      "Q", "R", "S", "T", "U", "V", "W", "X", "Y", "Z", "a", "b", "c", "d", "e", "f",
      "g", "h", "i", "j", "k", "l", "m", "n", "o", "p", "q", "r", "s", "t", "u", "v",
      "w", "x", "y", "z", "0", "1", "2", "3", "4", "5", "6", "7", "8", "9", "+", "/">>
Base64Value(c) == (CHOOSE i \in DOMAIN Base64Alphabet : Base64Alphabet[i] = c) - 1

\* base64.b64decode of a string of characters: four characters of six bits
\* make three bytes, and each trailing "=" takes one byte off the end
b64decode(s) ==
    LET pad == Cardinality({i \in DOMAIN s : s[i] = "="})
        sextet(i) == IF s[i] = "=" THEN 0 ELSE Base64Value(s[i])
        group(k) == sextet(4 * k - 3) * 262144 + sextet(4 * k - 2) * 4096
                        + sextet(4 * k - 1) * 64 + sextet(4 * k)
        byte(j) == LET k == (j - 1) \div 3 + 1
                       shift == CASE (j - 1) % 3 = 0 -> 65536
                                  [] (j - 1) % 3 = 1 -> 256
                                  [] OTHER -> 1
                   IN  (group(k) \div shift) % 256
    IN  [j \in 1..((Len(s) \div 4) * 3 - pad) |-> byte(j)]

\* The literal html_processor.py decodes, character by character
PixelBase64 ==
    <<"R", "0", "l", "G", "O", "D", "l", "h", "A", "Q", "A", "B", "A", "I", "A", "A",
      "A", "A", "A", "A", "A", "P", "/", "/", "/", "y", "H", "5", "B", "A", "E", "A",
      "A", "A", "A", "A", "L", "A", "A", "A", "A", "A", "A", "B", "A", "A", "E", "A",
      "A", "A", "I", "B", "R", "A", "A", "7">>

\* html_processor.TRACKING_PIXEL_GIF
TRACKING_PIXEL_GIF == b64decode(PixelBase64)

\* The headers track_open sets on its response
NoCacheHeaders ==
    ("Cache-Control" :> "no-cache, no-store, must-revalidate, max-age=0")
        @@ ("Pragma" :> "no-cache") @@ ("Expires" :> "0")

\* fastapi.Response(content, media_type, headers), status 200 by default
Response(content, media_type, headers) ==
    [status_code |-> 200, content |-> content, media_type |-> media_type,
     headers |-> headers]

\* Where the store fails during a tracking call: nowhere, at the SELECT
\* (db.execute raises) or at the flush (db.flush raises)
StoreFaults == {"none", "execute", "flush"}

\* record_open against a store that may fail: the result of the call, or
\* raised with nothing written
try_record_open(msgs, tracking_id, t, fault) ==
    LET r == record_open(msgs, tracking_id, t) IN
    IF fault = "execute" /\ UUID(tracking_id).ok
    THEN [messages |-> msgs, result |-> FALSE, raised |-> TRUE]
    ELSE IF fault = "flush" /\ r.result
         THEN [messages |-> msgs, result |-> FALSE, raised |-> TRUE]
         ELSE [messages |-> r.messages, result |-> r.result, raised |-> FALSE]

\* routes/tracking.track_open: record the open inside try/except, then
\* always return the pixel
track_open(msgs, tracking_id, t, fault) ==
    LET r == try_record_open(msgs, tracking_id, t, fault) IN
    [messages |-> r.messages, result |-> r.result, raised |-> r.raised,
     response |-> Response(TRACKING_PIXEL_GIF, "image/gif", NoCacheHeaders)]

\* Destination URLs as the click route receives them in its url parameter,
\* as strings of tokens: one without escapes and one with percent escapes
ClickUrls ==
    {<<"https", ":", "/", "/", "x.io", "/", "a">>,
     <<"https", "%3A", "%2F", "%2F", "x.io", "%2F", "b">>}

\* The requests of the click route: with the url parameter or without it
ClickRequests ==
    {[has_url |-> TRUE, url |-> u] : u \in ClickUrls}
        \cup {[has_url |-> FALSE, url |-> <<>>]}

\* urllib.parse.unquote: every percent escape becomes its character
unquote(url) ==
    [i \in DOMAIN url |-> CASE url[i] = "%3A" -> ":"
                            [] url[i] = "%2F" -> "/"
                            [] url[i] = "%20" -> " "
                            [] OTHER -> url[i]]

\* settings.FALLBACK_REDIRECT_URL
FALLBACK_REDIRECT_URL == <<"https", ":", "/", "/", "example.com">>

\* fastapi.responses.RedirectResponse(url, status_code=302)
RedirectResponse(url) == [status_code |-> 302, location |-> url]

\* The answer to a request that lacks a required parameter: the route
\* function is not called
RequestValidationError == [status_code |-> 422, location |-> <<>>]

\* Where a click request fails: in the store (as for an open) or while the
\* redirect to the destination is built
ClickFaults == StoreFaults \cup {"response"}

\* record_click against a store that may fail
try_record_click(msgs, clicks, tracking_id, url, t, fault) ==
    LET r == record_click(msgs, clicks, tracking_id, url, t) IN
    IF fault = "execute" /\ UUID(tracking_id).ok
    THEN [click_events |-> clicks, result |-> FALSE, raised |-> TRUE]
    ELSE IF fault = "flush" /\ r.result
         THEN [click_events |-> clicks, result |-> FALSE, raised |-> TRUE]
         ELSE [click_events |-> r.click_events, result |-> r.result,
               raised |-> FALSE]

\* routes/tracking.track_click: url is a required query parameter; decode
\* it, record the click inside try/except, redirect to the decoded URL;
\* any other exception redirects to the fallback URL
track_click(msgs, clicks, tracking_id, req, t, fault) ==
    IF ~req.has_url
    THEN [click_events |-> clicks, result |-> FALSE, raised |-> FALSE,
          called |-> FALSE, response |-> RequestValidationError]
    ELSE LET decoded_url == unquote(req.url)
             r == try_record_click(msgs, clicks, tracking_id, decoded_url, t, fault)
         IN  [click_events |-> r.click_events, result |-> r.result,
              raised |-> r.raised, called |-> TRUE,
              response |-> IF fault = "response"
                           THEN RedirectResponse(FALLBACK_REDIRECT_URL)
                           ELSE RedirectResponse(decoded_url)]

\* GET /api/track/open/{tracking_id}
TrackOpen(id, fault) ==
    /\ now <= MaxRequests
    /\ now' = now + 1
    /\ LET a == track_open(messages, id, now, fault) IN
         /\ messages' = a.messages
         /\ tracked' = IF a.raised THEN tracked
                       ELSE Append(tracked, TrackEntry("open", id, a.result))
         /\ reply' = [op |-> "GET track/open", tracking_id |-> id,
                      message_id |-> Known(id),
                      opened_before |-> Known(id) # None
                                          /\ messages[Known(id)].opened_at # None,
                      raised |-> a.raised, response |-> a.response]
    /\ UNCHANGED <<cert_cache, events, suppressions, handled, sessions, base,
                   batch, click_events>>

\* GET /api/track/click/{tracking_id}?url=...
TrackClick(id, req, fault) ==
    /\ now <= MaxRequests
    /\ now' = now + 1
    /\ LET a == track_click(messages, click_events, id, req, now, fault) IN
         /\ click_events' = a.click_events
         /\ tracked' = IF a.raised \/ ~a.called THEN tracked
                       ELSE Append(tracked, TrackEntry("click", id, a.result))
         /\ reply' = [op |-> "GET track/click", tracking_id |-> id,
                      message_id |-> Known(id), request |-> req,
                      fault |-> fault, raised |-> a.raised,
                      response |-> a.response]
    /\ UNCHANGED <<cert_cache, messages, events, suppressions, handled, sessions,
                   base, batch>>

NextTrackRoute ==
    \/ \E to \in Recipients, wrapped \in BOOLEAN, accepted \in BOOLEAN :
           SendEmail(to, wrapped, accepted)
    \/ \E id \in TrackingIds, fault \in StoreFaults : TrackOpen(id, fault)
    \/ \E id \in TrackingIds, req \in ClickRequests, fault \in ClickFaults :
           TrackClick(id, req, fault)

SpecTrackRoute == Init /\ [][NextTrackRoute]_vars

\* ------------------------------------------------------------ the send path
\* SpecSend: POST /emails/send with every check of send_email, the provider
\* call and the save, run to completion with the commit or the rollback of
\* get_session, next to the manual additions to the suppression list.

\* email.partition("@"), for the addresses of the model: the local part and
\* the domain, each split at its dots (".." stands for two dots in a row)
partition(email) ==
    CASE email \in {"a@x.io", "b@x.io"}
             -> [local |-> <<Lower(email)>>, domain |-> <<"x", "io">>]
      [] email = "A@x.io" -> [local |-> <<"A">>, domain |-> <<"x", "io">>]
      [] email = "c@other.org" -> [local |-> <<"c">>, domain |-> <<"other", "org">>]
      [] email = "user..bad@x.io"
             -> [local |-> <<"user", "..", "bad">>, domain |-> <<"x", "io">>]
      [] email = "sender@test.example.com"
             -> [local |-> <<"sender">>, domain |-> <<"test", "example", "com">>]
      [] email = "sender@ok.io" -> [local |-> <<"sender">>, domain |-> <<"ok", "io">>]
      [] email = "sender@pending.io"
             -> [local |-> <<"sender">>, domain |-> <<"pending", "io">>]
      [] email = "sender@unverified-domain.com"
             -> [local |-> <<"sender">>, domain |-> <<"unverified-domain", "com">>]
      [] OTHER -> [local |-> <<"bad", "..", "sender">>, domain |-> <<"x", "io">>]

\* Recipients and senders of send requests
SendRecipients == Recipients \cup {"c@other.org", "user..bad@x.io"}
Senders ==
    {"sender@test.example.com", "sender@ok.io", "sender@pending.io",
     "sender@unverified-domain.com", "bad..sender@x.io"}

\* email_validator.validate_email: no consecutive dots, a dot in the domain
validate_email(email) ==
    LET p == partition(email) IN
    /\ \A i \in DOMAIN p.local : p.local[i] # ".."
    /\ \A i \in DOMAIN p.domain : p.domain[i] # ".."
    /\ Len(p.domain) >= 2

\* settings.allowed_domains_list and settings.VERIFIED_DOMAIN
ALLOWED_EMAIL_DOMAINS == {<<"x", "io">>}
VERIFIED_DOMAIN == <<"test", "example", "com">>

\* email_validator.validate_domain_allowed: the lower-cased domain is an
\* allowed domain or ends with "." and an allowed domain
validate_domain_allowed(email, allowed_domains) ==
    LET d == partition(email).domain
        domain == [i \in DOMAIN d |-> Lower(d[i])]
    IN  \/ allowed_domains = {}
        \/ \E allowed \in allowed_domains :
              /\ Len(domain) >= Len(allowed)
              /\ SubSeq(domain, Len(domain) - Len(allowed) + 1, Len(domain)) = allowed

\* The rows of table domains: one verified, one awaiting verification
DomainRows ==
    {[domain |-> <<"ok", "io">>, verification_status |-> "Success"],
     [domain |-> <<"pending", "io">>, verification_status |-> "Pending"]}

\* domain_service.is_domain_verified
is_domain_verified(domains, domain_name) ==
    \E row \in domains :
        /\ row.domain = [i \in DOMAIN domain_name |-> Lower(domain_name[i])]
        /\ row.verification_status = "Success"

\* What ses_client.send_email does: return the provider's id, plain or in
\* angle brackets, raise SESError, or raise something else
ProviderResults == {"id", "<id>", "SESError", "RuntimeError"}

\* What send_email answers: the error raise_api_error raises, or the
\* SendEmailResponse
SendResult(msgs, code, status_code, provider_called) ==
    [messages |-> msgs, code |-> code, status_code |-> status_code,
     provider_called |-> provider_called]

\* send_email keeping a Message with status failed when the provider raised
\* SESError
send_email_recording_failures(msgs, sups, request, provider, save_ok, t) ==
    CASE ~validate_email(request.to_email)
             -> SendResult(msgs, "INVALID_RECIPIENT_EMAIL", 400, FALSE)
      [] validate_email(request.to_email) /\ ~validate_email(request.from_email)
             -> SendResult(msgs, "INVALID_SENDER_EMAIL", 400, FALSE)
      [] validate_email(request.to_email) /\ validate_email(request.from_email)
           /\ ~validate_domain_allowed(request.to_email, ALLOWED_EMAIL_DOMAINS)
             -> SendResult(msgs, "DOMAIN_NOT_ALLOWED", 403, FALSE)
      [] validate_email(request.to_email) /\ validate_email(request.from_email)
           /\ validate_domain_allowed(request.to_email, ALLOWED_EMAIL_DOMAINS)
           /\ check_suppression(sups, request.to_email)
             -> SendResult(msgs, "EMAIL_SUPPRESSED", 400, FALSE)
      [] OTHER ->
           CASE provider = "SESError"
                    -> SendResult(
                           Append(msgs,
                               [ses_message_id |-> <<>>,
                                to_email |-> Lower(request.to_email),
                                status |-> "failed",
                                first_deferred_at |-> None,
                                opened_at |-> None,
                                created_at |-> t,
                                updated_at |-> t]),
                           "SES_SEND_FAILED", 500, TRUE)
             [] provider = "RuntimeError"
                    -> SendResult(msgs, "EMAIL_SEND_FAILED", 500, TRUE)
             [] provider \in {"id", "<id>"} /\ ~save_ok
                    -> SendResult(msgs, "DATABASE_ERROR", 500, TRUE)
             [] OTHER ->
                  LET id == ProviderId(Len(msgs) + 1)
                      ses_message_id == IF provider = "<id>" THEN Wrap(id) ELSE id
                  IN  SendResult(
                          Append(msgs,
                              [ses_message_id |-> StripAngleBrackets(ses_message_id),
                               to_email |-> Lower(request.to_email),
                               status |-> "sent",
                               first_deferred_at |-> None,
                               opened_at |-> None,
                               created_at |-> t,
                               updated_at |-> t]),
                          "OK", 200, TRUE)

\* email_service.send_email followed by the commit (or, when it raised, the
\* rollback) of get_session
send_email(msgs, sups, request, provider, save_ok, t) ==
    CASE ~validate_email(request.to_email)
             -> SendResult(msgs, "INVALID_RECIPIENT_EMAIL", 400, FALSE)
      [] validate_email(request.to_email) /\ ~validate_email(request.from_email)
             -> SendResult(msgs, "INVALID_SENDER_EMAIL", 400, FALSE)
      [] validate_email(request.to_email) /\ validate_email(request.from_email)
           /\ ~validate_domain_allowed(request.to_email, ALLOWED_EMAIL_DOMAINS)
             -> SendResult(msgs, "DOMAIN_NOT_ALLOWED", 403, FALSE)
      [] validate_email(request.to_email) /\ validate_email(request.from_email)
           /\ validate_domain_allowed(request.to_email, ALLOWED_EMAIL_DOMAINS)
           /\ check_suppression(sups, request.to_email)
             -> SendResult(msgs, "EMAIL_SUPPRESSED", 400, FALSE)
      [] OTHER ->
           CASE provider = "SESError" -> SendResult(msgs, "SES_SEND_FAILED", 500, TRUE)
             [] provider = "RuntimeError"
                    -> SendResult(msgs, "EMAIL_SEND_FAILED", 500, TRUE)
             [] provider \in {"id", "<id>"} /\ ~save_ok
                    -> SendResult(msgs, "DATABASE_ERROR", 500, TRUE)
             [] OTHER ->
                  LET id == ProviderId(Len(msgs) + 1)
                      ses_message_id == IF provider = "<id>" THEN Wrap(id) ELSE id
                  IN  SendResult(
                          Append(msgs,
                              [ses_message_id |-> StripAngleBrackets(ses_message_id),
                               to_email |-> Lower(request.to_email),
                               status |-> "sent",
                               first_deferred_at |-> None,
                               opened_at |-> None,
                               created_at |-> t,
                               updated_at |-> t]),
                          "OK", 200, TRUE)

\* POST /emails/send
SendEmailRequest(request, provider, save_ok) ==
    /\ now <= MaxSendRequests
    /\ Len(messages) < MaxMessages
    /\ now' = now + 1
    /\ LET r == send_email(messages, suppressions, request, provider, save_ok, now)
       IN  /\ messages' = r.messages
           /\ reply' = [op |-> "POST emails/send", request |-> request,
                        provider |-> provider, save_ok |-> save_ok,
                        listed |-> Listed(request.to_email),
                        code |-> r.code, status_code |-> r.status_code,
                        provider_called |-> r.provider_called]
    /\ UNCHANGED <<cert_cache, events, suppressions, handled, sessions, base, batch,
                   click_events, tracked>>

NextSend ==
    \/ \E to \in SendRecipients, from \in Senders, provider \in ProviderResults,
          save_ok \in BOOLEAN :
           /\ (~save_ok => provider = "id")
           /\ SendEmailRequest([to_email |-> to, from_email |-> from],
                               provider, save_ok)
    \/ \E email \in Recipients, reason \in ManualReasons :
           AddSuppression(email, reason)

SpecSend == Init /\ [][NextSend]_vars

\* ------------------------------------- the event pipeline next to tracking
\* SpecFrame: the send path, the webhook events for the first Message and
\* the two tracking calls in one run, each request run to completion.
FrameEvents == {e \in SesEvents : e.messageId = Wrap(ProviderId(1))}

NextFrame ==
    \/ \E to \in Recipients, wrapped \in BOOLEAN, accepted \in BOOLEAN :
           now <= MaxFrameRequests /\ SendEmail(to, wrapped, accepted)
    \/ \E e \in FrameEvents : now <= MaxFrameRequests /\ Webhook(e)
    \/ \E id \in TrackingIds : now <= MaxFrameRequests /\ RecordOpen(id)
    \/ \E id \in TrackingIds, url \in Urls :
           now <= MaxFrameRequests /\ RecordClick(id, url)

SpecFrame == Init /\ [][NextFrame]_vars

\* ------------------------------------------------- properties of Spec
\* The newest entry of the log and the step that handles an event of the
\* given type for Message m
LastHandled == handled[Len(handled)]
Handles(m, type) ==
    /\ Len(handled') = Len(handled) + 1
    /\ handled'[Len(handled')].eventType = type
    /\ handled'[Len(handled')].message_id = m

\* The entries of the log for Message m, and their event types
LogOf(m) == SelectSeq(handled, LAMBDA x : x.message_id = m)
TypesOf(m) == [i \in DOMAIN LogOf(m) |-> LogOf(m)[i].eventType]

\* C1: once a Message's status is bounced, rejected or complained, no later
\* event changes it.
C1_TerminalStatusNeverChanges ==
    [][\A m \in DOMAIN messages :
          messages[m].status \in {"bounced", "rejected", "complained"}
              => messages'[m].status = messages[m].status]_vars

\* C2: every status change is one of the seven listed edges.
ListedEdges ==
    {<<"sent", "delivered">>, <<"sent", "bounced">>, <<"sent", "deferred">>,
     <<"sent", "rejected">>, <<"deferred", "delivered">>,
     <<"deferred", "bounced">>, <<"delivered", "complained">>}
C2_OnlyListedEdges ==
    [][\A m \in DOMAIN messages :
          messages'[m].status # messages[m].status
              => <<messages[m].status, messages'[m].status>> \in ListedEdges]_vars

StatusFor(type) ==
    CASE type = "Bounce" -> "bounced"
      [] type = "Complaint" -> "complained"
      [] type = "Reject" -> "rejected"
C4_BounceComplaintRejectApply ==
    [][\A m \in DOMAIN messages : \A type \in {"Bounce", "Complaint", "Reject"} :
          Handles(m, type) /\ messages[m].status \in {"sent", "deferred", "delivered"}
              => messages'[m].status = StatusFor(type)]_vars
C4_Witness ==
    /\ handled # <<>>
    /\ LastHandled.eventType = "Complaint"
    /\ LastHandled.message_id # None
    /\ LastHandled.status_before = "deferred"
    /\ messages[LastHandled.message_id].status = "complained"

\* C5: a DeliveryDelay event changes the status only when it is sent (to
\* deferred); in every other status it leaves the status and the
\* first-deferred timestamp unchanged.
C5_DelayOnlyFromSent ==
    [][\A m \in DOMAIN messages :
          Handles(m, "DeliveryDelay")
              => /\ messages'[m].status =
                        IF messages[m].status = "sent"
                        THEN "deferred" ELSE messages[m].status
                 /\ messages[m].status # "sent"
                        => messages'[m].first_deferred_at
                               = messages[m].first_deferred_at]_vars
C5_Witness ==
    /\ handled # <<>>
    /\ LastHandled.eventType = "DeliveryDelay"
    /\ LastHandled.message_id # None
    /\ LastHandled.status_before = "delivered"
    /\ messages[LastHandled.message_id].status = "delivered"
    /\ messages[LastHandled.message_id].first_deferred_at = None

\* C6: the first-deferred timestamp is set at most once: the first
\* DeliveryDelay applied in sent sets it, no later event changes or clears
\* it, and over DeliveryDelay, DeliveryDelay, Delivery from sent the status
\* is deferred, deferred, delivered with the timestamp of the first event.
DelayScenario ==
    \A m \in DOMAIN messages :
        /\ TypesOf(m) \in {<<"DeliveryDelay">>, <<"DeliveryDelay", "DeliveryDelay">>}
               => /\ messages[m].status = "deferred"
                  /\ messages[m].first_deferred_at = LogOf(m)[1].at
        /\ TypesOf(m) = <<"DeliveryDelay", "DeliveryDelay", "Delivery">>
               => /\ messages[m].status = "delivered"
                  /\ messages[m].first_deferred_at = LogOf(m)[1].at
C6_FirstDeferredSetOnce ==
    [][/\ \A m \in DOMAIN messages :
             /\ messages[m].first_deferred_at # None
                    => messages'[m].first_deferred_at = messages[m].first_deferred_at
             /\ Handles(m, "DeliveryDelay") /\ messages[m].status = "sent"
                    => messages'[m].first_deferred_at = now
       /\ DelayScenario']_vars
C6_Witness ==
    \E m \in DOMAIN messages :
        /\ TypesOf(m) = <<"DeliveryDelay", "DeliveryDelay", "Delivery">>
        /\ messages[m].status = "delivered"
        /\ messages[m].first_deferred_at = LogOf(m)[1].at
        /\ LogOf(m)[2].at > LogOf(m)[1].at

\* C7: every event handled for a Message that is found appends exactly one
\* Event record; after n handled events the Message has exactly n records,
\* each with the raw payload and the provider timestamp.
C7_OneEventPerHandledEvent ==
    \A m \in DOMAIN messages :
        Cardinality({i \in DOMAIN events : events[i].message_id = m})
            = Cardinality({i \in DOMAIN handled : handled[i].message_id = m})

RowsFor(sups, email) == {i \in DOMAIN sups : sups[i].email = email}
C10_BounceSuppressesIffPermanent ==
    [][\A m \in DOMAIN messages :
          Handles(m, "Bounce")
              => /\ messages[m].status = "sent"
                     => /\ messages'[m].status = "bounced"
                        /\ IF handled'[Len(handled')].bounceType = "Permanent"
                           THEN suppressions' =
                                    Append(suppressions,
                                           [email |-> messages[m].to_email,
                                            reason |-> "hard_bounce"])
                           ELSE suppressions' = suppressions
                 /\ Cardinality(RowsFor(suppressions', messages[m].to_email)) <= 1]_vars

\* C11: every Complaint handled for a found Message suppresses the recipient
\* with reason complaint, whatever the status (the row is there afterwards,
\* and it is a new complaint row when the address had none); from delivered
\* the status becomes complained with exactly one row for the address.
C11_ComplaintAlwaysSuppresses ==
    [][\A m \in DOMAIN messages :
          Handles(m, "Complaint")
              => LET to == messages[m].to_email IN
                 /\ IF check_suppression(suppressions, to)
                    THEN suppressions' = suppressions
                    ELSE suppressions' =
                             Append(suppressions,
                                    [email |-> to, reason |-> "complaint"])
                 /\ messages[m].status = "delivered"
                        => /\ messages'[m].status = "complained"
                           /\ Cardinality(RowsFor(suppressions', to)) = 1]_vars

\* C12: add_to_suppression_list is idempotent, first writer wins: with a row
\* for the lower-cased address it inserts nothing and leaves every row, the
\* reason included, as it was (hard_bounce then complaint keeps hard_bounce);
\* otherwise it inserts exactly one row, with the given reason.
EscalationReasons == {"hard_bounce", "complaint"}
C12_EscalationFirstWriterWins ==
    \A email \in Recipients : \A reason \in EscalationReasons :
        LET after == add_to_suppression_list(suppressions, email, reason)
            rows  == RowsFor(suppressions, Lower(email))
        IN  /\ \A i \in DOMAIN suppressions : after[i] = suppressions[i]
            /\ Len(after) = IF rows = {} THEN Len(suppressions) + 1
                                         ELSE Len(suppressions)
            /\ rows = {} => after[Len(after)] =
                                [email |-> Lower(email), reason |-> reason]
            /\ \A again \in EscalationReasons :
                   add_to_suppression_list(after, email, again) = after
C12_Witness ==
    /\ Len(handled) >= 2
    /\ LastHandled.eventType = "Complaint"
    /\ LastHandled.message_id # None
    /\ ~LastHandled.raised
    /\ \E i \in DOMAIN handled :
          /\ i < Len(handled)
          /\ handled[i].eventType = "Bounce"
          /\ handled[i].bounceType = "Permanent"
          /\ ~handled[i].raised
          /\ handled[i].message_id = LastHandled.message_id
    /\ suppressions =
           <<[email |-> messages[LastHandled.message_id].to_email,
              reason |-> "hard_bounce"]>>

\* ------------------------------------------------ properties of SpecConc
\* The store after handling e1 and then e2, one after the other, from db
Serial(db, e1, e2) ==
    LET r1 == process_ses_event(db, e1, None)
    IN  process_ses_event([messages |-> r1.messages, events |-> r1.events,
                           suppressions |-> r1.suppressions], e2, None)

\* C9: when two request handlers process two events for the same Message
\* concurrently, the resulting status and Event records are those of
\* processing the two events one after the other in some order.
C9_ConcurrentEventsSerialize ==
    (/\ Quiescent
     /\ Len(batch) = 2
     /\ batch[1].message_id # None
     /\ batch[1].message_id = batch[2].message_id
     /\ batch[1].message_id \in DOMAIN base.messages)
        => LET m == batch[1].message_id
               s12 == Serial(base, batch[1].event, batch[2].event)
               s21 == Serial(base, batch[2].event, batch[1].event)
           IN  <<messages[m].status, events>>
                   \in {<<s12.messages[m].status, s12.events>>,
                        <<s21.messages[m].status, s21.events>>}

\* C13: when two request handlers concurrently escalate the same address,
\* neither finding a row for it when its batch began, both complete with
\* their Message status update and their Event record stored, and exactly
\* one Suppression row exists for the address.
C13_ConcurrentEscalationIsTolerated ==
    (/\ Quiescent
     /\ Len(batch) = 2
     /\ \A i \in 1..2 :
           /\ batch[i].message_id \in DOMAIN base.messages
           /\ Escalates(batch[i].event)
           /\ fromisoformat(ReplaceZ(batch[i].event.timestamp)).ok
     /\ base.messages[batch[1].message_id].to_email
            = base.messages[batch[2].message_id].to_email
     /\ ~check_suppression(base.suppressions,
                           base.messages[batch[1].message_id].to_email))
        => LET to == base.messages[batch[1].message_id].to_email IN
           /\ Cardinality(RowsFor(suppressions, to)) = 1
           /\ \A i \in 1..2 :
                 /\ \E k \in DOMAIN events :
                        /\ events[k].message_id = batch[i].message_id
                        /\ events[k].raw_payload = batch[i].event
                 /\ messages[batch[i].message_id].status
                        \in {StatusFor(batch[j].event.eventType) : j \in 1..2}

\* ------------------------------------------------ properties of SpecSupp
\* C14: in every reachable state there is at most one Suppression row per
\* lower-cased address, whatever escalations, unsubscribes, manual adds and
\* removals produced the state.
C14_OneRowPerAddress ==
    \A i, j \in DOMAIN suppressions :
        Lower(suppressions[i].email) = Lower(suppressions[j].email) => i = j
C14_Witness ==
    /\ reply.op = "add_suppression"
    /\ reply.code = "ALREADY_SUPPRESSED"
    /\ \E i, j \in DOMAIN suppressions :
          /\ suppressions[i].reason = "unsubscribe"
          /\ suppressions[j].reason = "hard_bounce"

OpensOf(m) == SelectSeq(tracked, LAMBDA x : x.op = "open" /\ x.message_id = m)

\* C16: record_open is first-wins: over any sequence of calls for one
\* Message it returns true for the first call and false for every later
\* one, and the first-open timestamp is the value the first call set.
C16_RecordOpenFirstWins ==
    \A m \in DOMAIN messages :
        IF OpensOf(m) = <<>>
        THEN messages[m].opened_at = None
        ELSE /\ \A i \in DOMAIN OpensOf(m) : OpensOf(m)[i].result = (i = 1)
             /\ messages[m].opened_at = OpensOf(m)[1].at
C16_Witness ==
    \E m \in DOMAIN messages :
        /\ Len(OpensOf(m)) >= 2
        /\ OpensOf(m)[1].result
        /\ ~OpensOf(m)[2].result
        /\ messages[m].opened_at = OpensOf(m)[1].at
        /\ OpensOf(m)[2].at > OpensOf(m)[1].at

\* The record_click calls logged for Message m, in call order
ClicksOf(m) == SelectSeq(tracked, LAMBDA x : x.op = "click" /\ x.message_id = m)

\* C18: record_click never deduplicates: the N calls made for an existing
\* Message, with any URLs and any repeats, each returned true and left
\* exactly N ClickEvent rows for that Message.
C18_EveryClickIsRecorded ==
    \A m \in DOMAIN messages :
        /\ \A i \in DOMAIN ClicksOf(m) : ClicksOf(m)[i].result
        /\ Cardinality({k \in DOMAIN click_events : click_events[k].message_id = m})
               = Len(ClicksOf(m))
C18_Witness ==
    \E m \in DOMAIN messages :
        /\ Len(ClicksOf(m)) = 3
        /\ \E j, k \in DOMAIN click_events :
              /\ j < k
              /\ click_events[j].message_id = m
              /\ click_events[k].message_id = m
              /\ click_events[j].url = click_events[k].url
        /\ Cardinality({k \in DOMAIN click_events : click_events[k].message_id = m}) = 3

\* C19: record_open and record_click called with an id that matches no
\* Message, a string that is no valid identifier included, return false and
\* change nothing: no timestamp is set and no ClickEvent is created.
C19_UnknownTrackingIdChangesNothing ==
    [][Len(tracked') = Len(tracked) + 1 /\ tracked'[Len(tracked')].message_id = None
          => /\ ~tracked'[Len(tracked')].result
             /\ UNCHANGED <<messages, click_events>>]_vars
C19_Witness ==
    /\ messages # <<>>
    /\ Len(tracked) >= 2
    /\ \E i, j \in DOMAIN tracked :
          /\ tracked[i].op = "open"
          /\ tracked[j].op = "click"
          /\ tracked[i].message_id = None
          /\ tracked[j].message_id = None
          /\ ~tracked[i].result
          /\ ~tracked[j].result
    /\ click_events = <<>>
    /\ \A m \in DOMAIN messages : messages[m].opened_at = None

\* ------------------------------------------- properties of SpecTrackConc
\* C17: when two record_open requests for the same Message overlap, the
\* first-open timestamp is written once: a timestamp that is set is never
\* overwritten, and at most one of the calls returns true.
C17_ConcurrentOpensStampOnce ==
    [][\A m \in DOMAIN messages :
          /\ messages[m].opened_at # None
                 => messages'[m].opened_at = messages[m].opened_at
          /\ Cardinality({i \in DOMAIN tracked' :
                              /\ tracked'[i].op = "open"
                              /\ tracked'[i].message_id = m
                              /\ tracked'[i].result}) <= 1]_vars

\* ----------------------------------------------- properties of SpecRoute
\* C20: when the webhook body is no valid JSON, the envelope fails
\* validation, the certificate URL is untrusted or the signature does not
\* verify, processing stops before any state mutation: no Message changes,
\* no Event is appended, no Suppression is inserted.
C20_UnverifiedWebhookChangesNothing ==
    [][(/\ reply'.op = "ses_webhook"
        /\ now' = now + 1
        /\ \/ reply'.request.body # "envelope"
           \/ reply'.request.cert_url \notin TrustedCertUrls
           \/ ~reply'.request.signature_ok)
          => UNCHANGED <<messages, events, suppressions, handled>>]_vars
C20_Witness ==
    /\ reply.op = "ses_webhook"
    /\ reply.request.body = "envelope"
    /\ reply.request.cert_url \in TrustedCertUrls
    /\ ~reply.request.signature_ok
    /\ messages # <<>>
    /\ messages[1].status = "sent"
    /\ events = <<>>
    /\ handled = <<>>
    /\ now = 3

\* C21: a webhook request whose body is malformed JSON, or whose signature
\* does not verify, is answered with a rejection (4xx), never with a
\* success acknowledgement.
C21_MalformedOrUnsignedIsRejected ==
    [][(/\ reply'.op = "ses_webhook"
        /\ now' = now + 1
        /\ \/ reply'.request.body = "invalid_json"
           \/ /\ reply'.request.body = "envelope"
              /\ ~reply'.request.signature_ok)
          => /\ reply'.code # "success"
             /\ reply'.status_code \in 400..499]_vars

\* C22: when processing the event of a verified Notification raises, the
\* webhook request is still answered with a success acknowledgement.
C22_ProcessingErrorIsAcknowledged ==
    [][(/\ reply'.op = "ses_webhook"
        /\ now' = now + 1
        /\ Len(handled') = Len(handled) + 1
        /\ handled'[Len(handled')].raised)
          => /\ reply'.code = "success"
             /\ reply'.status_code = 200]_vars
C22_Witness ==
    /\ reply.op = "ses_webhook"
    /\ reply.code = "success"
    /\ reply.detail = "Event logged with errors"
    /\ handled # <<>>
    /\ handled[Len(handled)].raised
    /\ handled[Len(handled)].at = now - 1
    /\ handled[Len(handled)].message_id # None

\* C23: for a verified SubscriptionConfirmation the SubscribeURL is fetched
\* once; when the fetch succeeds the request is acknowledged with success
\* and no Event is recorded; when it fails the caller gets a non-success
\* response it can retry on.
C23_SubscriptionConfirmationSurfacesFailure ==
    [][(/\ reply'.op = "ses_webhook"
        /\ now' = now + 1
        /\ reply'.request.body = "envelope"
        /\ reply'.request.Type = "SubscriptionConfirmation"
        /\ reply'.request.signature_ok
        /\ reply'.request.has_url)
          => /\ reply'.confirm_gets = 1
             /\ reply'.request.confirm = "ok"
                    => reply'.code = "success" /\ events' = events
             /\ reply'.request.confirm = "fail"
                    => reply'.code # "success" \/ reply'.status_code >= 400]_vars

C25_UntrustedCertUrlIsNeverFetched ==
    /\ DOMAIN cert_cache \subseteq TrustedCertUrls
    /\ (/\ reply.op = "verify_sns_signature"
        /\ "SigningCertURL" \in DOMAIN reply.message
        /\ reply.message["SigningCertURL"] \notin TrustedCertUrls)
          => /\ reply.result = "error"
             /\ reply.fetches = 0
C25_Witness ==
    /\ reply.op = "verify_sns_signature"
    /\ RequiredFields \subseteq DOMAIN reply.message
    /\ reply.message["SigningCertURL"] \notin TrustedCertUrls
    /\ reply.message["SigningCertURL"].scheme = "https"
    /\ reply.message["Type"] = "Notification"
    /\ reply.signed = "sns"
    /\ reply.net = "pem"
    /\ reply.result = "error"
    /\ reply.fetches = 0
    /\ DOMAIN cert_cache = TrustedCertUrls

\* C26: a verification that gets as far as the certificate and misses the
\* cache makes one GET and, when a certificate comes back, stores it under
\* its URL leaving the other entries alone; a verification whose URL is in
\* the cache makes no GET and leaves the cache as it is; only
\* clear_certificate_cache empties the cache.
C26_CertificateIsFetchedOncePerUrl ==
    [][/\ (/\ reply'.op = "verify_sns_signature"
           /\ now' = now + 1
           /\ RequiredFields \subseteq DOMAIN reply'.message
           /\ reply'.signed # "not_base64")
             => LET u == reply'.message["SigningCertURL"] IN
                  /\ u \in DOMAIN cert_cache
                         => reply'.fetches = 0 /\ cert_cache' = cert_cache
                  /\ (u \notin DOMAIN cert_cache /\ u \in TrustedCertUrls)
                         => /\ reply'.fetches = 1
                            /\ reply'.net # "pem" => cert_cache' = cert_cache
                            /\ reply'.net = "pem"
                                 => /\ DOMAIN cert_cache' = DOMAIN cert_cache \cup {u}
                                    /\ \A w \in DOMAIN cert_cache :
                                           cert_cache'[w] = cert_cache[w]
       /\ (DOMAIN cert_cache \ DOMAIN cert_cache' # {})
             => reply'.op = "clear_certificate_cache" /\ DOMAIN cert_cache' = {}]_vars
C26_Witness ==
    /\ reply.op = "verify_sns_signature"
    /\ RequiredFields \subseteq DOMAIN reply.message
    /\ reply.cached
    /\ reply.net = "unreachable"
    /\ reply.signed = "sns"
    /\ reply.result = "valid"
    /\ reply.fetches = 0
    /\ reply.message["SigningCertURL"] \in DOMAIN cert_cache
    /\ now = 3

\* A structural problem of the envelope a verification was given: a required
\* field is missing, the Signature is no base64, or the certificate cannot be
\* retrieved (it is not cached and its URL is untrusted or the host gives no
\* certificate)
StructuralProblem(r) ==
    \/ ~(RequiredFields \subseteq DOMAIN r.message)
    \/ r.signed = "not_base64"
    \/ /\ ~r.cached
       /\ \/ r.message["SigningCertURL"] \notin TrustedCertUrls
          \/ r.net # "pem"

\* C27: verify_sns_signature raises a validation error exactly for the
\* envelopes with a structural problem; for every other envelope it
\* returns true when the signature was made by the certificate's key over
\* the envelope as received, and false when it was not.
C27_RaisesOnlyForStructuralProblems ==
    reply.op = "verify_sns_signature"
        => /\ reply.result = "error" <=> StructuralProblem(reply)
           /\ ~StructuralProblem(reply)
                  => (reply.result = "valid" <=> reply.signed = "sns")

\* C27 as the code has it: the validation error is raised exactly for a
\* structural problem or an envelope Type build_signature_string has no
\* field list for; every other envelope gets true when its signature
\* verifies and false when it does not.
C27_RaisesOnlyForStructuralOrUnknownType ==
    reply.op = "verify_sns_signature"
        => LET raises == \/ StructuralProblem(reply)
                         \/ reply.message["Type"] \notin SignedTypes
           IN  /\ reply.result = "error" <=> raises
               /\ ~raises => (reply.result = "valid" <=> reply.signed = "sns")
C27_Witness ==
    /\ reply.op = "verify_sns_signature"
    /\ RequiredFields \subseteq DOMAIN reply.message
    /\ reply.message["Type"] = "SomethingElse"
    /\ reply.message["SigningCertURL"] \in TrustedCertUrls
    /\ reply.signed = "sns"
    /\ reply.net = "pem"
    /\ ~reply.cached
    /\ reply.fetches = 1
    /\ reply.result = "error"

\* The signed fields of an envelope Type in their order, and whether an
\* envelope has a field (a null counts as absent)
SignedFieldOrder(type) ==
    IF type = "Notification"
    THEN <<"Message", "MessageId", "Subject", "Timestamp", "TopicArn", "Type">>
    ELSE <<"Message", "MessageId", "SubscribeURL", "Timestamp", "Token",
           "TopicArn", "Type">>
HasField(m, f) == f \in DOMAIN m /\ m[f] # JsonNull

\* C28: for an envelope of a known Type the canonical string is, for the
\* signed fields the envelope has, in the order fixed for its Type, the
\* field's name, a newline, its value, a newline, and nothing for a field it
\* lacks; giving Signature, SigningCertURL or SignatureVersion another value,
\* or dropping it, leaves the string the same.
C28_CanonicalSigningString ==
    (/\ reply.op = "build_signature_string"
     /\ reply.message["Type"] \in SignedTypes)
        => LET m == reply.message
               Has(f) == HasField(m, f)
               present == SelectSeq(SignedFieldOrder(m["Type"]), Has)
           IN  /\ reply.ok
               /\ Len(reply.value) = 4 * Len(present)
               /\ \A i \in 1..Len(present) :
                      /\ reply.value[4 * i - 3] = present[i]
                      /\ reply.value[4 * i - 2] = NL
                      /\ reply.value[4 * i - 1] = m[present[i]]
                      /\ reply.value[4 * i] = NL
               /\ \A v \in {"1", "2"} :
                      build_signature_string(WithField(m, "SignatureVersion", v)).value
                          = reply.value
               /\ \A k \in {SnsKey, OtherKey} :
                      build_signature_string(WithField(m, "Signature", Sign(k, <<>>))).value
                          = reply.value
               /\ \A u \in CertUrls :
                      build_signature_string(WithField(m, "SigningCertURL", u)).value
                          = reply.value
               /\ \A f \in {"Signature", "SigningCertURL", "SignatureVersion"} :
                      build_signature_string(WithoutField(m, f)).value = reply.value
C28_Witness ==
    /\ reply.op = "build_signature_string"
    /\ reply.message["Type"] = "Notification"
    /\ DOMAIN reply.message \cap OptionalFields = {"TopicArn", "Token"}
    /\ reply.ok
    /\ reply.value = <<"Message", NL, "{...}", NL,
                       "MessageId", NL, "sns-1", NL,
                       "Timestamp", NL, "2024-01-15T10:30:00.000Z", NL,
                       "TopicArn", NL, "arn:aws:sns:us-east-1:123456:ses", NL,
                       "Type", NL, "Notification", NL>>

\* ------------------------------------------------ properties of SpecRate
\* The Messages created less than, and no more than, an hour before t
CreatedWithin(t) ==
    {i \in DOMAIN messages : t - messages[i].created_at < Hour}
CreatedWithinOrAt(t) ==
    {i \in DOMAIN messages : t - messages[i].created_at <= Hour}

\* C29: the rate-limit check returns (exceeded, count) with count the
\* number of Messages created in the hour before the instant of the check
\* (every Message younger than an hour counted, none older than an hour, so
\* none that is two hours old), and exceeded true exactly when count has
\* reached the limit.
C29_RateLimitCountsTrailingHour ==
    [][(/\ reply'.op = "check_rate_limit"
        /\ reply' # reply)
          => /\ reply'.at = now
             /\ Cardinality(CreatedWithin(now)) <= reply'.count
             /\ reply'.count <= Cardinality(CreatedWithinOrAt(now))
             /\ reply'.exceeded <=> reply'.count >= reply'.limit]_vars
C29_Witness ==
    /\ reply.op = "check_rate_limit"
    /\ reply.at = now
    /\ reply.limit = 2
    /\ reply.exceeded
    /\ reply.count = 2
    /\ Len(messages) = 2
    /\ CreatedWithin(now) = {1, 2}

\* C30: a send attempted when the Messages created in the trailing hour
\* have reached the configured hourly limit is rejected with
\* RATE_LIMIT_EXCEEDED, creates no Message and does not call the provider,
\* whatever limit N of RateLimits is configured; so after N sends within
\* the hour the next one is rejected.
C30_SendIsGatedByRateLimit ==
    [][\A limit \in RateLimits :
          (/\ reply'.op = "send_email"
           /\ now' = now + 1
           /\ Cardinality(CreatedWithin(now)) >= limit)
             => /\ reply'.code = "RATE_LIMIT_EXCEEDED"
                /\ ~reply'.provider_called
                /\ messages' = messages]_vars

\* -------------------------------------------- properties of SpecTrackRoute

\* C31: every request to the open-tracking endpoint is answered with the
\* fixed transparent GIF of 43 bytes, as image/gif with caching disabled,
\* whether the Message exists, was already opened, or the recording raised.
C31_OpenAlwaysReturnsThe43BytePixel ==
    reply.op = "GET track/open"
        => /\ reply.response.status_code = 200
           /\ reply.response.content = TRACKING_PIXEL_GIF
           /\ Len(reply.response.content) = 43
           /\ reply.response.media_type = "image/gif"
           /\ reply.response.headers = NoCacheHeaders

\* C32: every request to the click-tracking endpoint is answered with a
\* redirect, to the decoded destination or to the fallback URL, and never
\* with an error, whether the Message is unknown or the recording raised.
C32_ClickAlwaysRedirects ==
    reply.op = "GET track/click"
        => /\ reply.response.status_code = 302
           /\ \/ /\ reply.request.has_url
                 /\ reply.response.location = unquote(reply.request.url)
              \/ reply.response.location = FALLBACK_REDIRECT_URL

\* -------------------------------------------------- properties of SpecSend

\* Is the sender's domain the configured verified domain or a Domain row
\* with verification status Success
SenderVerified(from_email) ==
    \/ partition(from_email).domain = VERIFIED_DOMAIN
    \/ is_domain_verified(DomainRows, partition(from_email).domain)

\* C33: a send whose sender domain is neither the configured verified
\* domain nor a Domain verified with status Success is rejected with 403
\* SENDER_DOMAIN_NOT_VERIFIED, creates no Message and calls no provider.
C33_UnverifiedSenderIsRejected ==
    [][(/\ reply'.op = "POST emails/send"
        /\ now' = now + 1
        /\ validate_email(reply'.request.to_email)
        /\ validate_email(reply'.request.from_email)
        /\ validate_domain_allowed(reply'.request.to_email, ALLOWED_EMAIL_DOMAINS)
        /\ ~check_suppression(suppressions, reply'.request.to_email)
        /\ ~SenderVerified(reply'.request.from_email))
          => /\ reply'.status_code = 403
             /\ reply'.code = "SENDER_DOMAIN_NOT_VERIFIED"
             /\ ~reply'.provider_called
             /\ messages' = messages]_vars

\* ------------------------------------------- properties of Spec, continued

\* The correlation ids the provider may have assigned, and one it has not
CorrelationIds == {ProviderId(k) : k \in 1..(MaxMessages + 1)} \cup {<<"unknown">>}

\* C34: correlation ids are normalized on both paths by stripping one pair
\* of angle brackets: the send path stores the provider's id without the
\* brackets, a lookup by '<id>' gives the same Message as a lookup by 'id',
\* so every Message is found under its id, wrapped or not, and every event
\* handled for the id of a sent Message resolved to a Message.
C34_CorrelationIdsAreNormalized ==
    /\ \A i \in DOMAIN messages :
          /\ messages[i].ses_message_id = ProviderId(i)
          /\ get_message_by_ses_id(messages, ProviderId(i)) = i
          /\ get_message_by_ses_id(messages, Wrap(ProviderId(i))) = i
    /\ \A id \in CorrelationIds :
          get_message_by_ses_id(messages, Wrap(id))
              = get_message_by_ses_id(messages, id)
    /\ \A k \in DOMAIN handled :
          handled[k].matches => handled[k].message_id # None

\* Events were resolved for both Messages: the first one's carry the id in
\* angle brackets, the second one's carry it plain
C34_Witness ==
    /\ Len(messages) = 2
    /\ \E k \in DOMAIN handled : handled[k].message_id = 1
    /\ \E k \in DOMAIN handled : handled[k].message_id = 2

\* C35: a status change is never committed without its audit record: every
\* committed step that changes the status of a Message also appends an Event
\* record for that Message, also when the handler raised partway and the
\* route swallowed the error.
C35_StatusChangeHasItsEvent ==
    [][\A m \in DOMAIN messages :
          messages'[m].status # messages[m].status
              => \E i \in DOMAIN events' \ DOMAIN events :
                     events'[i].message_id = m]_vars

\* Do two entries of the log stand for the same notification handled twice
\* in succession
SameNotification(first, second) ==
    /\ second.eventType = first.eventType
    /\ second.bounceType = first.bounceType
    /\ second.message_id = first.message_id
    /\ second.matches = first.matches
    /\ second.raised = first.raised
    /\ second.at = first.at + 1

\* C36: a duplicate is harmless to state: handling the same notification a
\* second time right after the first changes no Message's status or
\* first-deferred timestamp and no Suppression row; only Event records are
\* added.
C36_DuplicateDeliveryIsHarmless ==
    [][(/\ Len(handled) > 0
        /\ Len(handled') = Len(handled) + 1
        /\ SameNotification(LastHandled, handled'[Len(handled')]))
          => /\ \A m \in DOMAIN messages :
                   /\ messages'[m].status = messages[m].status
                   /\ messages'[m].first_deferred_at = messages[m].first_deferred_at
             /\ suppressions' = suppressions
             /\ Len(events') >= Len(events)
             /\ SubSeq(events', 1, Len(events)) = events]_vars

\* A permanent Bounce was handled twice in succession for the Message it
\* found, and the address is listed once
C36_Witness ==
    /\ Len(handled) >= 2
    /\ SameNotification(handled[Len(handled) - 1], LastHandled)
    /\ LastHandled.eventType = "Bounce" /\ LastHandled.bounceType = "Permanent"
    /\ LastHandled.message_id # None /\ ~LastHandled.raised
    /\ LastHandled.status_before = "bounced"
    /\ Len(suppressions) = 1

\* Has the Message been seen in status 'delivered' by a handled event, or
\* is it there now
ReachedDelivered(m) ==
    \/ messages[m].status = "delivered"
    \/ \E k \in DOMAIN LogOf(m) : LogOf(m)[k].status_before = "delivered"

\* C37: a Message whose status has left 'sent' never returns to 'sent', and
\* a Message that has reached 'delivered' never becomes 'deferred'.
C37_NoReturnToSentNoDeferralAfterDelivery ==
    [][\A m \in DOMAIN messages :
          /\ messages[m].status # "sent" => messages'[m].status # "sent"
          /\ ReachedDelivered(m) => messages'[m].status # "deferred"]_vars

\* A DeliveryDelay was handled for a Message that was delivered before, and
\* the Message is still delivered
C37_Witness ==
    /\ Len(handled) > 0
    /\ LastHandled.eventType = "DeliveryDelay"
    /\ LastHandled.message_id # None
    /\ LastHandled.status_before = "delivered"
    /\ messages[LastHandled.message_id].status = "delivered"

\* ------------------------------------------------- properties of SpecFrame

\* C38: the event pipeline and the tracking recorder leave each other's
\* fields alone: a handled event changes no first-open timestamp and no
\* ClickEvent; a record_open or record_click call changes no status, no
\* first-deferred timestamp, no Event and no Suppression, and record_click
\* changes no first-open timestamp either.
C38_PipelineAndTrackingAreDisjoint ==
    [][/\ Len(handled') = Len(handled) + 1
            => /\ \A m \in DOMAIN messages :
                     messages'[m].opened_at = messages[m].opened_at
               /\ click_events' = click_events
       /\ Len(tracked') = Len(tracked) + 1
            => /\ \A m \in DOMAIN messages :
                     /\ messages'[m].status = messages[m].status
                     /\ messages'[m].first_deferred_at = messages[m].first_deferred_at
                     /\ tracked'[Len(tracked')].op = "click"
                            => messages'[m].opened_at = messages[m].opened_at
               /\ events' = events
               /\ suppressions' = suppressions]_vars

\* A Message was deferred by an event, then opened and clicked, and an
\* event was handled for it after the open
C38_Witness ==
    /\ Len(messages) >= 1
    /\ messages[1].opened_at # None
    /\ messages[1].first_deferred_at # None
    /\ messages[1].opened_at > messages[1].first_deferred_at
    /\ Len(handled) >= 1 /\ Len(tracked) >= 1
    /\ \/ LastHandled.at > messages[1].opened_at
       \/ \E k \in DOMAIN click_events : click_events[k].message_id = 1

\* ----------------------------------------- properties of SpecSend, continued

\* The provider results that are failures of the send
ProviderFailures == {"SESError", "RuntimeError"}

\* C39: when the provider send fails, with SESError or any other exception,
\* send_email fails with a 500 error and no Message row is stored; a row is
\* stored only for a send the provider accepted, and always with status
\* 'sent'.
C39_FailedSendPersistsNothing ==
    [][(reply'.op = "POST emails/send" /\ now' = now + 1)
          => /\ (reply'.provider_called /\ reply'.provider \in ProviderFailures)
                   => /\ reply'.status_code = 500
                      /\ messages' = messages
             /\ messages' # messages
                   => /\ reply'.provider_called
                      /\ reply'.provider \notin ProviderFailures
                      /\ messages' = Append(messages, messages'[Len(messages')])
                      /\ messages'[Len(messages')].status = "sent"]_vars

\* After an accepted send, a send the provider failed was answered 500
C39_Witness ==
    /\ reply.op = "POST emails/send"
    /\ reply.provider \in ProviderFailures
    /\ reply.provider_called
    /\ reply.status_code = 500
    /\ Len(messages) = 1
    /\ messages[1].status = "sent"

\* --------------------------------------------- properties of SpecCertConc

\* Every entry of the cache is keyed by a trusted URL and holds the
\* certificate a successful fetch and parse gave for it
CacheIsSound(cache) ==
    \A u \in DOMAIN cache :
        /\ is_valid_sns_url(u)
        /\ cache[u] = Certificate(u)
        /\ cache[u] # NoCertificate

\* C40: in every reachable state each entry of the certificate cache is
\* keyed by a URL that passed the trusted-host check and holds a certificate
\* whose fetch and parse succeeded, and a call that ended with a rejected
\* URL or a failed fetch left the cache unchanged, also when two handlers
\* miss the same URL and each performs its own fetch.
C40_CacheHoldsOnlyFetchedTrustedCertificates ==
    [][/\ CacheIsSound(cert_cache) /\ CacheIsSound(cert_cache')
       /\ (/\ reply'.op = "fetch_signing_certificate"
           /\ reply'.outcome \in {"rejected", "failed"}
           /\ (now' = now + 1 \/ sessions' # sessions))
             => cert_cache' = cert_cache]_vars

\* Both handlers missed the same URL and fetched it: the first fetch was
\* stored, the second one failed and the entry is still there
C40_Witness ==
    /\ reply.op = "fetch_signing_certificate"
    /\ reply.outcome = "failed"
    /\ reply.cert_url \in DOMAIN cert_cache
    /\ \A h \in Handlers : sessions[h].pc = "idle"
    /\ now = 3

====
